---- MODULE Spec2Model ----
(***************************************************************************)
(* Text-storage core of the editor: the piece-table TextBuffer             *)
(* (src/src/text_buffer.rs) over the piece tree, and the persistent        *)
(* ChunkTree (src/src/chunk_tree.rs).                                      *)
(*                                                                         *)
(* Bytes are small integers; a byte vector is a sequence of them.  Rust    *)
(* indices are 0-based, TLA+ sequences 1-based: data[i] of the source is   *)
(* data[i + 1] here, and the slice data[a..b] is SubSeq(data, a + 1, b).   *)
(***************************************************************************)
EXTENDS Integers, Sequences, FiniteSets, TLC

VARIABLES
    buffer,         \* the TextBuffer under edit: [piece_tree, buffers, next_buffer_id]
    expected_text,  \* the plain reference vector the same edits are applied to
    heap,           \* the chunk-tree nodes behind an Arc, by allocation order
    versions,       \* every ChunkTree made so far: [root, n], root an index of heap
    snapshots,      \* per version, what len() and collect_bytes(g) gave when it was made
    call,           \* the last ChunkTree call: its operation, receiver and arguments
    panicked,       \* a panic (failed assertion, slice out of range) was raised
    piece_snapshot, \* a piece tree a reader captured, and what it read as then
    hl_buffer,      \* the bytes of the buffer the highlighter is asked about
    highlighter,    \* the TextMateHighlighter: [syntax, cache, last_buffer_len]
    cache_source,   \* the buffer the cache was parsed from, and the edits so far
    fn_input,       \* the argument a function of the highlighter is called with
    fn_output,      \* what the function returned, once it has
    cursor_position \* the primary cursor of the editor, a byte offset

(***************************************************************************)
(* Bounds of the model.                                                    *)
(***************************************************************************)
\* cap on the bytes held by all arenas together (arenas only grow)
MaxArenaBytes == 4
\* largest length handed to delete_bytes
MaxDeleteLen == 2
\* cap on the chunk-tree nodes ever allocated (nodes are never freed here)
MaxNodes == 14
\* cap on the arena bytes of a session in which a reader holds a snapshot
MaxSnapshotBytes == 3
\* longest buffer given to the highlighter
MaxHlLen == 4
\* most edits made to the buffer the highlighter is asked about
MaxEdits == 2
\* longest span list given to merge_adjacent_spans, and the largest offset in it
MaxSpans == 3
MaxPos == 3
\* longest window given to the line scanner
MaxScanLen == 4
\* most bytes typed into the editor in one session
MaxKeyBytes == 5
\* cap on the chunk-tree versions made in one session
MaxVersions == 3
\* how far past len() an insert index or a remove range may reach
MaxPast == 1
\* largest leaf bound n a chunk tree is built with
MaxLeaf == 2
MaxSliceLen == 9
MaxSliceLeaf == 4

\* b'\n'
LF == 10
\* b'\r'
CR == 13
\* MAX_PARSE_BYTES (1 MiB in the source), scaled to the model's buffers: the
\* highlighter only compares a window length with it
MAX_PARSE_BYTES == 3
\* the bytes edits are made of: '\n', 'a', 'b'
Bytes == {LF, 97, 98}

Min(a, b) == IF a <= b THEN a ELSE b

\* the contents TextBuffer::new is given: "", "\n", "a\nb"
InitContents == {<<>>, <<LF>>, <<97, LF, 98>>}
\* the texts insert_bytes is given: "", "a", "\n", "b\n"
Texts == {<<>>, <<97>>, <<LF>>, <<98, LF>>}
\* the data chunk trees are built from: "", "abc"
ChunkInitData == {<<>>, <<97, 98, 99>>}
\* the data ChunkTree::insert is given: "", "x", "xyz"
ChunkData == {<<>>, <<120>>, <<120, 121, 122>>}
\* the gap bytes collect_bytes is called with: 0 and '_'
GapBytes == {0, 95}

\* data[from..to] of the source (0-based, end exclusive)
Slice(data, from, to) == SubSeq(data, from + 1, to)

\* text.iter().filter(|&&b| b == b'\n').count()
CountLF(text) == Cardinality({i \in 1..Len(text) : text[i] = LF})

\* the reference vector's splice(offset..offset, text)
Splice(vec, offset, text) ==
    Slice(vec, 0, offset) \o text \o Slice(vec, offset, Len(vec))

\* the reference vector's drain(from..to)
Drain(vec, from, to) == Slice(vec, 0, from) \o Slice(vec, to, Len(vec))

(***************************************************************************)
(* Byte arenas (StringBuffer) and buffer locations.                        *)
(***************************************************************************)
Stored(id) == [kind |-> "Stored", id |-> id]
Added(id) == [kind |-> "Added", id |-> id]

\* StringBuffer::new(id, data)
StringBuffer_new(id, data) == [id |-> id, data |-> data]

\* StringBuffer::append(text): the arena after the append and the offset at
\* which the new bytes begin (the length before the append)
StringBuffer_append(sb, text) ==
    [buffer |-> [sb EXCEPT !.data = sb.data \o text], offset |-> Len(sb.data)]

\* number of '\n' in the window [offset, offset + bytes) of an arena
WindowLF(bufs, location, offset, bytes) ==
    CountLF(Slice(bufs[location.id + 1].data, offset, offset + bytes))

(***************************************************************************)
(* Piece tree: an ordered sequence of pieces with the aggregates           *)
(* total_bytes and total_line_feeds.                                       *)
(***************************************************************************)
Piece(location, offset, bytes, lf) ==
    [location |-> location, offset |-> offset, bytes |-> bytes,
     line_feed_count |-> lf]

PieceTree_empty == [pieces |-> <<>>, total_bytes |-> 0, total_line_feeds |-> 0]

PieceTree_new(location, offset, bytes, lf) ==
    [pieces |-> <<Piece(location, offset, bytes, lf)>>,
     total_bytes |-> bytes, total_line_feeds |-> lf]

PieceTree_total_bytes(pt) == pt.total_bytes

\* an empty document has one line
PieceTree_line_count(pt) == pt.total_line_feeds + 1

\* find_by_offset: the piece containing byte `offset` and the offset inside
\* it; nothing when offset is not a byte of the document
NoPiece ==
    [found |-> FALSE, location |-> Stored(0), offset |-> 0, bytes |-> 0,
     offset_in_piece |-> 0]

RECURSIVE FindRec(_, _)
FindRec(ps, offset) ==
    IF ps = <<>> THEN NoPiece
    ELSE IF offset < Head(ps).bytes
         THEN [found |-> TRUE, location |-> Head(ps).location,
               offset |-> Head(ps).offset, bytes |-> Head(ps).bytes,
               offset_in_piece |-> offset]
         ELSE FindRec(Tail(ps), offset - Head(ps).bytes)

PieceTree_find_by_offset(pt, offset) ==
    IF offset >= pt.total_bytes THEN NoPiece ELSE FindRec(pt.pieces, offset)

\* the two halves of piece p cut k bytes in, line feeds recounted per half
PieceLeft(p, k, bufs) ==
    Piece(p.location, p.offset, k, WindowLF(bufs, p.location, p.offset, k))
PieceRight(p, k, bufs) ==
    Piece(p.location, p.offset + k, p.bytes - k,
          WindowLF(bufs, p.location, p.offset + k, p.bytes - k))

\* the piece sequence with the piece that has `offset` in its interior split
RECURSIVE SplitAt(_, _, _)
SplitAt(ps, offset, bufs) ==
    IF ps = <<>> \/ offset <= 0 THEN ps
    ELSE IF offset >= Head(ps).bytes
         THEN <<Head(ps)>> \o SplitAt(Tail(ps), offset - Head(ps).bytes, bufs)
         ELSE <<PieceLeft(Head(ps), offset, bufs),
                PieceRight(Head(ps), offset, bufs)>> \o Tail(ps)

\* how many leading pieces end at or before `offset`
RECURSIVE PiecesBefore(_, _)
PiecesBefore(ps, offset) ==
    IF ps = <<>> \/ Head(ps).bytes > offset THEN 0
    ELSE 1 + PiecesBefore(Tail(ps), offset - Head(ps).bytes)

RECURSIVE SumBytes(_)
SumBytes(ps) == IF ps = <<>> THEN 0 ELSE Head(ps).bytes + SumBytes(Tail(ps))

RECURSIVE SumLF(_)
SumLF(ps) ==
    IF ps = <<>> THEN 0 ELSE Head(ps).line_feed_count + SumLF(Tail(ps))

\* insert: locate the piece containing offset, split it if offset is
\* interior, put the new piece between the halves, update the sums
PieceTree_insert(pt, offset, location, buf_offset, len, lf, bufs) ==
    LET at == Min(offset, pt.total_bytes)
        sp == SplitAt(pt.pieces, at, bufs)
        k == PiecesBefore(sp, at)
    IN  [pieces |-> SubSeq(sp, 1, k) \o <<Piece(location, buf_offset, len, lf)>>
                        \o SubSeq(sp, k + 1, Len(sp)),
         total_bytes |-> pt.total_bytes + len,
         total_line_feeds |-> pt.total_line_feeds + lf]

\* delete: trim the first piece, drop whole pieces, trim the tail piece
PieceTree_delete(pt, offset, len, bufs) ==
    LET end == Min(offset + len, pt.total_bytes)
        sp == SplitAt(SplitAt(pt.pieces, offset, bufs), end, bufs)
        k1 == PiecesBefore(sp, offset)
        k2 == PiecesBefore(sp, end)
        gone == SubSeq(sp, k1 + 1, k2)
    IN  IF offset >= pt.total_bytes THEN pt
        ELSE [pieces |-> SubSeq(sp, 1, k1) \o SubSeq(sp, k2 + 1, Len(sp)),
              total_bytes |-> pt.total_bytes - SumBytes(gone),
              total_line_feeds |-> pt.total_line_feeds - SumLF(gone)]

\* index (1-based, so also the relative offset just past it) of the n-th
\* '\n' of window w; Len(w) when w holds fewer than n
AfterNthLF(w, n) ==
    IF \E i \in 1..Len(w) : w[i] = LF /\ CountLF(SubSeq(w, 1, i)) = n
    THEN CHOOSE i \in 1..Len(w) : w[i] = LF /\ CountLF(SubSeq(w, 1, i)) = n
    ELSE Len(w)

\* walk the cumulative line-feed counts to the piece holding the n-th '\n',
\* then scan that piece: the offset at which the line after it starts
RECURSIVE LineStartRec(_, _, _, _)
LineStartRec(ps, n, base, bufs) ==
    IF ps = <<>> THEN base
    ELSE LET p == Head(ps) IN
         IF n <= p.line_feed_count
         THEN base + AfterNthLF(Slice(bufs[p.location.id + 1].data, p.offset,
                                      p.offset + p.bytes), n)
         ELSE LineStartRec(Tail(ps), n - p.line_feed_count, base + p.bytes, bufs)

LineStart(pt, line, bufs) ==
    IF line = 0 THEN 0 ELSE LineStartRec(pt.pieces, line, 0, bufs)

\* line_range(line): (start_byte, end_byte?), end_byte absent for the last
\* line; nothing for a line the document does not have
PieceTree_line_range(pt, line, bufs) ==
    IF line >= PieceTree_line_count(pt)
    THEN [some |-> FALSE, start |-> 0, has_end |-> FALSE, end |-> 0]
    ELSE [some |-> TRUE, start |-> LineStart(pt, line, bufs),
          has_end |-> line + 1 < PieceTree_line_count(pt),
          end |-> IF line + 1 < PieceTree_line_count(pt)
                  THEN LineStart(pt, line + 1, bufs) ELSE 0]

\* number of '\n' before byte `offset`: whole pieces by their cached count,
\* the piece containing offset by a scan of its arena
RECURSIVE LFBefore(_, _, _)
LFBefore(ps, offset, bufs) ==
    IF ps = <<>> \/ offset <= 0 THEN 0
    ELSE LET p == Head(ps) IN
         IF offset >= p.bytes
         THEN p.line_feed_count + LFBefore(Tail(ps), offset - p.bytes, bufs)
         ELSE WindowLF(bufs, p.location, p.offset, offset)

\* offset_to_position: <<line, column>>, the offset clamped to the document
PieceTree_offset_to_position(pt, offset, bufs) ==
    LET o == Min(offset, pt.total_bytes)
        line == LFBefore(pt.pieces, o, bufs)
    IN  <<line, o - LineStart(pt, line, bufs)>>

\* position_to_offset: clamped to the document
PieceTree_position_to_offset(pt, line, column, bufs) ==
    IF line >= PieceTree_line_count(pt) THEN pt.total_bytes
    ELSE Min(LineStart(pt, line, bufs) + column, pt.total_bytes)

(***************************************************************************)
(* TextBuffer (src/src/text_buffer.rs).                                    *)
(***************************************************************************)
TextBuffer_new(content) ==
    LET bytes == Len(content)
        buf == StringBuffer_new(0, content)
        line_feed_cnt == CountLF(buf.data)
    IN  [piece_tree |-> IF bytes > 0
                        THEN PieceTree_new(Stored(0), 0, bytes, line_feed_cnt)
                        ELSE PieceTree_empty,
         buffers |-> <<buf>>,
         next_buffer_id |-> 1]

TextBuffer_empty ==
    [piece_tree |-> PieceTree_empty,
     buffers |-> <<StringBuffer_new(0, <<>>)>>,
     next_buffer_id |-> 1]

total_bytes(self) == PieceTree_total_bytes(self.piece_tree)

line_count(self) == PieceTree_line_count(self.piece_tree)

\* Position { line, column }
Position(line, column) == [line |-> line, column |-> column]

offset_to_position_swapped(self, offset) ==
    LET lc == PieceTree_offset_to_position(self.piece_tree, offset, self.buffers)
    IN  Position(lc[2], lc[1])
offset_to_position(self, offset) ==
    LET lc == PieceTree_offset_to_position(self.piece_tree, offset, self.buffers)
    IN  Position(lc[1], lc[2])

position_to_offset(self, position) ==
    PieceTree_position_to_offset(self.piece_tree, position.line,
                                 position.column, self.buffers)

\* try_append_to_existing_buffer: Some((location, buffer_offset, text_len))
\* with the arena grown, or None with the arenas untouched
AppendNone(self) ==
    [some |-> FALSE, location |-> Stored(0), buffer_offset |-> 0,
     text_len |-> 0, buffers |-> self.buffers]

\* "Perfect! Append to this buffer": the arena grown by text, and the
\* place of the new bytes in it
AppendInfoStaleOffset(self, piece_info, text) ==
    LET buffer_id == piece_info.location.id
        app == StringBuffer_append(self.buffers[buffer_id + 1], text)
    IN  [some |-> TRUE, location |-> piece_info.location,
         buffer_offset |-> piece_info.offset, text_len |-> Len(text),
         buffers |-> [self.buffers EXCEPT ![buffer_id + 1] = app.buffer]]
AppendInfo(self, piece_info, text) ==
    LET buffer_id == piece_info.location.id
        app == StringBuffer_append(self.buffers[buffer_id + 1], text)
    IN  [some |-> TRUE, location |-> piece_info.location,
         buffer_offset |-> app.offset, text_len |-> Len(text),
         buffers |-> [self.buffers EXCEPT ![buffer_id + 1] = app.buffer]]

try_append_any_arena(self, offset, text) ==
    IF text = <<>> \/ offset = 0 THEN AppendNone(self)
    ELSE LET piece_info == PieceTree_find_by_offset(self.piece_tree, offset - 1) IN
         IF ~piece_info.found THEN AppendNone(self)
         ELSE IF piece_info.offset_in_piece + 1 # piece_info.bytes
              THEN AppendNone(self)
         ELSE LET buffer_id == piece_info.location.id IN
              IF buffer_id + 1 > Len(self.buffers) THEN AppendNone(self)
              ELSE LET buf == self.buffers[buffer_id + 1] IN
                   IF piece_info.offset + piece_info.bytes # Len(buf.data)
                   THEN AppendNone(self)
                   ELSE AppendInfo(self, piece_info, text)
try_append_to_existing_buffer(self, offset, text) ==
    IF text = <<>> \/ offset = 0 THEN AppendNone(self)
    ELSE LET piece_info == PieceTree_find_by_offset(self.piece_tree, offset - 1) IN
         IF ~piece_info.found THEN AppendNone(self)
         ELSE IF piece_info.offset_in_piece + 1 # piece_info.bytes
              THEN AppendNone(self)
         ELSE IF piece_info.location.kind # "Added" THEN AppendNone(self)
         ELSE LET buffer_id == piece_info.location.id IN
              IF buffer_id + 1 > Len(self.buffers) THEN AppendNone(self)
              ELSE LET buf == self.buffers[buffer_id + 1] IN
                   IF piece_info.offset + piece_info.bytes # Len(buf.data)
                   THEN AppendNone(self)
                   ELSE AppendInfo(self, piece_info, text)

\* the arena a non-coalesced insertion creates: (Added(id), 0, text.len())
NewArenaSameId(self, text) ==
    [location |-> Added(self.next_buffer_id - 1), buffer_offset |-> 0,
     text_len |-> Len(text),
     buffers |-> Append(self.buffers,
                        StringBuffer_new(self.next_buffer_id - 1, text)),
     next_buffer_id |-> self.next_buffer_id]
NewArena(self, text) ==
    [location |-> Added(self.next_buffer_id), buffer_offset |-> 0,
     text_len |-> Len(text),
     buffers |-> Append(self.buffers,
                        StringBuffer_new(self.next_buffer_id, text)),
     next_buffer_id |-> self.next_buffer_id + 1]

\* the line feeds insert_bytes counts in the text to insert
line_feed_cnt_uncounted(text) == 0
line_feed_cnt(text) == Cardinality({i \in 1..Len(text) : text[i] = LF})

insert_bytes_unguarded(self, offset, text) ==
    LET lf_cnt == line_feed_cnt(text)
        append_info == try_append_to_existing_buffer(self, offset, text)
        na == NewArena(self, text)
        bufs == IF append_info.some THEN append_info.buffers ELSE na.buffers
    IN  [piece_tree |-> PieceTree_insert(self.piece_tree, offset,
                            IF append_info.some THEN append_info.location
                            ELSE na.location,
                            IF append_info.some THEN append_info.buffer_offset
                            ELSE na.buffer_offset,
                            Len(text), lf_cnt, bufs),
         buffers |-> bufs,
         next_buffer_id |-> IF append_info.some THEN self.next_buffer_id
                            ELSE na.next_buffer_id]
insert_bytes(self, offset, text) ==
    IF text = <<>> THEN self
    ELSE LET lf_cnt == line_feed_cnt(text)
             append_info == try_append_to_existing_buffer(self, offset, text)
             na == NewArena(self, text)
             location == IF append_info.some THEN append_info.location
                         ELSE na.location
             buffer_offset == IF append_info.some THEN append_info.buffer_offset
                              ELSE na.buffer_offset
             text_len == IF append_info.some THEN append_info.text_len
                         ELSE na.text_len
             bufs == IF append_info.some THEN append_info.buffers ELSE na.buffers
         IN  [piece_tree |-> PieceTree_insert(self.piece_tree, offset, location,
                                 buffer_offset, text_len, lf_cnt, bufs),
              buffers |-> bufs,
              next_buffer_id |-> IF append_info.some THEN self.next_buffer_id
                                 ELSE na.next_buffer_id]

\* the end of the part of arena `id` that the pieces ps still use
ArenaInUse(ps, id) ==
    LET ends == {ps[i].offset + ps[i].bytes :
                    i \in {j \in 1..Len(ps) : ps[j].location = Added(id)}}
    IN  IF ends = {} THEN 0 ELSE CHOOSE e \in ends : \A f \in ends : f <= e
delete_bytes_reclaiming(self, offset, bytes) ==
    IF bytes = 0 \/ offset >= total_bytes(self) THEN self
    ELSE LET pt == PieceTree_delete(self.piece_tree, offset, bytes, self.buffers)
         IN  [self EXCEPT
                !.piece_tree = pt,
                !.buffers = [i \in 1..Len(self.buffers) |->
                    IF i = 1 THEN self.buffers[i]
                    ELSE [self.buffers[i] EXCEPT
                            !.data = SubSeq(@, 1, ArenaInUse(pt.pieces, i - 1))]]]
delete_bytes_unguarded(self, offset, bytes) ==
    [self EXCEPT !.piece_tree =
        PieceTree_delete(self.piece_tree, offset, bytes, self.buffers)]
delete_bytes(self, offset, bytes) ==
    IF bytes = 0 \/ offset >= total_bytes(self) THEN self
    ELSE [self EXCEPT !.piece_tree =
              PieceTree_delete(self.piece_tree, offset, bytes, self.buffers)]

\* where in its arena the read of a piece starts
buffer_start_at_piece(piece_info, start_in_piece) == piece_info.offset
buffer_start_of(piece_info, start_in_piece) == piece_info.offset + start_in_piece

\* the while loop of get_text_range
RECURSIVE get_text_range_loop(_, _, _, _)
get_text_range_loop(self, result, remaining, current_offset) ==
    IF remaining = 0 THEN result
    ELSE LET piece_info == PieceTree_find_by_offset(self.piece_tree, current_offset) IN
         IF ~piece_info.found THEN result
         ELSE LET buffer_id == piece_info.location.id IN
              IF buffer_id + 1 > Len(self.buffers) THEN result
              ELSE LET buf == self.buffers[buffer_id + 1].data
                       start_in_piece == piece_info.offset_in_piece
                       available_in_piece == piece_info.bytes - start_in_piece
                       to_read == Min(remaining, available_in_piece)
                       buffer_start == buffer_start_of(piece_info, start_in_piece)
                       buffer_end == buffer_start + to_read
                   IN  IF buffer_end <= Len(buf)
                       THEN get_text_range_loop(self,
                                result \o Slice(buf, buffer_start, buffer_end),
                                remaining - to_read, current_offset + to_read)
                       ELSE result

get_text_range(self, offset, bytes) ==
    get_text_range_loop(self, <<>>, bytes, offset)

\* remaining -= to_read
remaining_unchanged(remaining, to_read) == remaining
remaining_after(remaining, to_read) == remaining - to_read

\* the same loop with its iterations told: `reads` is to_read of each
\* iteration that read, `running` says that the loop was still going after
\* `turns` iterations
LoopOut(result, reads, running) ==
    [result |-> result, reads |-> reads, running |-> running]

RECURSIVE get_text_range_turns(_, _, _, _, _, _)
get_text_range_turns(self, result, reads, remaining, current_offset, turns) ==
    IF remaining = 0 THEN LoopOut(result, reads, FALSE)
    ELSE IF turns = 0 THEN LoopOut(result, reads, TRUE)
    ELSE LET piece_info == PieceTree_find_by_offset(self.piece_tree, current_offset) IN
         IF ~piece_info.found THEN LoopOut(result, reads, FALSE)
         ELSE LET buffer_id == piece_info.location.id IN
              IF buffer_id + 1 > Len(self.buffers) THEN LoopOut(result, reads, FALSE)
              ELSE LET buf == self.buffers[buffer_id + 1].data
                       start_in_piece == piece_info.offset_in_piece
                       available_in_piece == piece_info.bytes - start_in_piece
                       to_read == Min(remaining, available_in_piece)
                       buffer_start == buffer_start_of(piece_info, start_in_piece)
                       buffer_end == buffer_start + to_read
                   IN  IF buffer_end <= Len(buf)
                       THEN get_text_range_turns(self,
                                result \o Slice(buf, buffer_start, buffer_end),
                                Append(reads, to_read),
                                remaining_after(remaining, to_read),
                                current_offset + to_read, turns - 1)
                       ELSE LoopOut(result, reads, FALSE)

get_all_text(self) == get_text_range(self, 0, total_bytes(self))

\* get_line: Some(bytes of the line) or None
get_line_without_terminator(self, line) ==
    LET r == PieceTree_line_range(self.piece_tree, line, self.buffers)
        bytes == IF r.has_end THEN r.end - r.start - 1
                 ELSE total_bytes(self) - r.start
    IN  IF ~r.some THEN [some |-> FALSE, bytes |-> <<>>]
        ELSE [some |-> TRUE, bytes |-> get_text_range(self, r.start, bytes)]
get_line(self, line) ==
    LET r == PieceTree_line_range(self.piece_tree, line, self.buffers)
        bytes == IF r.has_end THEN r.end - r.start
                 ELSE total_bytes(self) - r.start
    IN  IF ~r.some THEN [some |-> FALSE, bytes |-> <<>>]
        ELSE [some |-> TRUE, bytes |-> get_text_range(self, r.start, bytes)]

(***************************************************************************)
(* ChunkTree (src/src/chunk_tree.rs).  Nodes live behind Arc: heap[id] is  *)
(* the node Arc number id points to, Arc::new appends a node, and cloning  *)
(* an Arc copies its id.  Every node operation returns the heap it leaves, *)
(* the node it built, and ok = FALSE when it panicked on the way.          *)
(***************************************************************************)
Leaf(data) == [kind |-> "Leaf", data |-> data]
Gap(size) == [kind |-> "Gap", size |-> size]
Internal(left, mid, right, size) ==
    [kind |-> "Internal", left |-> left, mid |-> mid, right |-> right,
     size |-> size]

ChunkTreeNode_empty == Gap(0)

ChunkTreeNode_len(node) ==
    CASE node.kind = "Leaf" -> Len(node.data)
      [] node.kind = "Gap" -> node.size
      [] node.kind = "Internal" -> node.size

\* Arc::new(node)
Arc_new(h, node) == [h |-> Append(h, node), id |-> Len(h) + 1]

Out(h, node, ok) == [h |-> h, node |-> node, ok |-> ok]

\* Internal { left: Arc::new(l), mid: Arc::new(m), right: Arc::new(r), size }
NewInternal(h, l, m, r, size, ok) ==
    LET a_left == Arc_new(h, l)
        a_mid == Arc_new(a_left.h, m)
        a_right == Arc_new(a_mid.h, r)
    IN  Out(a_right.h, Internal(a_left.id, a_mid.id, a_right.id, size), ok)

\* "let mid_index = data.len() / 2"
split_after_first(data) == 1
half_index(data) == Len(data) \div 2

RECURSIVE ChunkTreeNode_from_slice(_, _, _)
from_slice_leaf_first(h, data, n) ==
    IF Len(data) <= n THEN Out(h, Leaf(data), TRUE)
    ELSE IF ~(n > 0) THEN Out(h, ChunkTreeNode_empty, FALSE)
    ELSE LET mid_index == half_index(data)
             left == ChunkTreeNode_from_slice(h, Slice(data, 0, mid_index), n)
             right == ChunkTreeNode_from_slice(left.h,
                          Slice(data, mid_index, Len(data)), n)
         IN  NewInternal(right.h, left.node, ChunkTreeNode_empty, right.node,
                         Len(data), left.ok /\ right.ok)
ChunkTreeNode_from_slice(h, data, n) ==
    IF ~(n > 0) THEN Out(h, ChunkTreeNode_empty, FALSE)
    ELSE IF Len(data) <= n THEN Out(h, Leaf(data), TRUE)
    ELSE LET mid_index == half_index(data)
             left == ChunkTreeNode_from_slice(h, Slice(data, 0, mid_index), n)
             right == ChunkTreeNode_from_slice(left.h,
                          Slice(data, mid_index, Len(data)), n)
         IN  NewInternal(right.h, left.node, ChunkTreeNode_empty, right.node,
                         Len(data), left.ok /\ right.ok)

\* insert, Leaf arm
InsertLeafSkipsByte(h, leaf_data, index, data, n) ==
    IF index > Len(leaf_data) THEN Out(h, Leaf(leaf_data), FALSE)
    ELSE LET left == ChunkTreeNode_from_slice(h, Slice(leaf_data, 0, index), n)
             mid == ChunkTreeNode_from_slice(left.h, data, n)
             right == ChunkTreeNode_from_slice(mid.h,
                          Slice(leaf_data, index + 1, Len(leaf_data)), n)
         IN  NewInternal(right.h, left.node, mid.node, right.node,
                         Len(leaf_data) + Len(data),
                         left.ok /\ mid.ok /\ right.ok)
InsertLeafWholeData(h, leaf_data, index, data, n) ==
    IF index > Len(leaf_data) THEN Out(h, Leaf(leaf_data), FALSE)
    ELSE LET left == ChunkTreeNode_from_slice(h, Slice(leaf_data, 0, index), n)
             right == ChunkTreeNode_from_slice(left.h,
                          Slice(leaf_data, index, Len(leaf_data)), n)
         IN  NewInternal(right.h, left.node, Leaf(data), right.node,
                         Len(leaf_data) + Len(data),
                         left.ok /\ right.ok /\ n > 0)
InsertLeaf(h, leaf_data, index, data, n) ==
    IF index > Len(leaf_data) THEN Out(h, Leaf(leaf_data), FALSE)
    ELSE LET left == ChunkTreeNode_from_slice(h, Slice(leaf_data, 0, index), n)
             mid == ChunkTreeNode_from_slice(left.h, data, n)
             right == ChunkTreeNode_from_slice(mid.h,
                          Slice(leaf_data, index, Len(leaf_data)), n)
         IN  NewInternal(right.h, left.node, mid.node, right.node,
                         Len(leaf_data) + Len(data),
                         left.ok /\ mid.ok /\ right.ok)

\* size.saturating_sub(index)
saturating_sub(a, b) == IF a >= b THEN a - b ELSE 0

\* insert, Gap arm
InsertGapFullPadding(h, size, index, data, n) ==
    LET end_padding == size
        a_left == Arc_new(h, Gap(index))
        mid == ChunkTreeNode_from_slice(a_left.h, data, n)
        a_mid == Arc_new(mid.h, mid.node)
        a_right == Arc_new(a_mid.h, Gap(end_padding))
    IN  Out(a_right.h,
            Internal(a_left.id, a_mid.id, a_right.id,
                     index + Len(data) + end_padding),
            mid.ok)
InsertGap(h, size, index, data, n) ==
    LET end_padding == saturating_sub(size, index)
        a_left == Arc_new(h, Gap(index))
        mid == ChunkTreeNode_from_slice(a_left.h, data, n)
        a_mid == Arc_new(mid.h, mid.node)
        a_right == Arc_new(a_mid.h, Gap(end_padding))
    IN  Out(a_right.h,
            Internal(a_left.id, a_mid.id, a_right.id,
                     index + Len(data) + end_padding),
            mid.ok)

\* the Internal node insert rebuilds around the one child it changed
ReplaceLeftStaleSize(h, node, child) ==
    LET a == Arc_new(child.h, child.node)
    IN  Out(a.h, Internal(a.id, node.mid, node.right, node.size), child.ok)
ReplaceLeft(h, node, child) ==
    LET a == Arc_new(child.h, child.node)
    IN  Out(a.h,
            Internal(a.id, node.mid, node.right,
                     ChunkTreeNode_len(child.node)
                         + ChunkTreeNode_len(h[node.mid])
                         + ChunkTreeNode_len(h[node.right])),
            child.ok)
ReplaceMid(h, node, child) ==
    LET a == Arc_new(child.h, child.node)
    IN  Out(a.h,
            Internal(node.left, a.id, node.right,
                     ChunkTreeNode_len(h[node.left])
                         + ChunkTreeNode_len(child.node)
                         + ChunkTreeNode_len(h[node.right])),
            child.ok)
ReplaceRight(h, node, child) ==
    LET a == Arc_new(child.h, child.node)
    IN  Out(a.h,
            Internal(node.left, node.mid, a.id,
                     ChunkTreeNode_len(h[node.left])
                         + ChunkTreeNode_len(h[node.mid])
                         + ChunkTreeNode_len(child.node)),
            child.ok)

RECURSIVE ChunkTreeNode_insert(_, _, _, _, _)
insert_ties_go_later(h, node, index, data, n) ==
    CASE node.kind = "Leaf" -> InsertLeaf(h, node.data, index, data, n)
      [] node.kind = "Gap" -> InsertGap(h, node.size, index, data, n)
      [] node.kind = "Internal" ->
            LET left_size == ChunkTreeNode_len(h[node.left])
                mid_len == ChunkTreeNode_len(h[node.mid])
                right_len == ChunkTreeNode_len(h[node.right])
            IN  IF index < left_size
                THEN ReplaceLeft(h, node,
                         ChunkTreeNode_insert(h, h[node.left], index, data, n))
                ELSE IF index <= left_size + mid_len
                THEN ReplaceMid(h, node,
                         ChunkTreeNode_insert(h, h[node.mid],
                                              index - left_size, data, n))
                ELSE IF index <= left_size + mid_len + right_len
                THEN ReplaceRight(h, node,
                         ChunkTreeNode_insert(h, h[node.right],
                                  index - left_size - mid_len, data, n))
                ELSE Out(h, node, FALSE)
ChunkTreeNode_insert(h, node, index, data, n) ==
    CASE node.kind = "Leaf" -> InsertLeaf(h, node.data, index, data, n)
      [] node.kind = "Gap" -> InsertGap(h, node.size, index, data, n)
      [] node.kind = "Internal" ->
            LET left_size == ChunkTreeNode_len(h[node.left])
                mid_len == ChunkTreeNode_len(h[node.mid])
                right_len == ChunkTreeNode_len(h[node.right])
            IN  IF index <= left_size
                THEN ReplaceLeft(h, node,
                         ChunkTreeNode_insert(h, h[node.left], index, data, n))
                ELSE IF index <= left_size + mid_len
                THEN ReplaceMid(h, node,
                         ChunkTreeNode_insert(h, h[node.mid],
                                              index - left_size, data, n))
                ELSE IF index <= left_size + mid_len + right_len
                THEN ReplaceRight(h, node,
                         ChunkTreeNode_insert(h, h[node.right],
                                  index - left_size - mid_len, data, n))
                ELSE Out(h, node, FALSE)

\* Range<usize>
Range(start, end) == [start |-> start, end |-> end]
Range_is_empty(range) == range.start >= range.end
Range_len(range) == saturating_sub(range.end, range.start)

range_shift_left_start_only(range, amount) ==
    Range(saturating_sub(range.start, amount), range.end)
range_shift_left(range, amount) ==
    Range(saturating_sub(range.start, amount), saturating_sub(range.end, amount))

range_cap(range, max) == Range(Min(range.start, max), Min(range.end, max))

\* remove, Leaf arm
RemoveLeaf(h, data, range, n) ==
    IF range.start > Len(data) \/ range.end > Len(data)
       \/ Range_len(range) > Len(data)
    THEN Out(h, Leaf(data), FALSE)
    ELSE LET left == ChunkTreeNode_from_slice(h, Slice(data, 0, range.start), n)
             a_left == Arc_new(left.h, left.node)
             a_mid == Arc_new(a_left.h, ChunkTreeNode_empty)
             right == ChunkTreeNode_from_slice(a_mid.h,
                          Slice(data, range.end, Len(data)), n)
             a_right == Arc_new(right.h, right.node)
         IN  Out(a_right.h,
                 Internal(a_left.id, a_mid.id, a_right.id,
                          Len(data) - Range_len(range)),
                 left.ok /\ right.ok)

\* remove, Gap arm
RemoveGap(h, size, range) ==
    IF range.start >= size THEN Out(h, Gap(size), TRUE)
    ELSE LET clamped_end == Min(size, range.end)
             removed_size == clamped_end - range.start
         IN  IF clamped_end < range.start THEN Out(h, Gap(size), FALSE)
             ELSE Out(h, Gap(size - removed_size), size - removed_size <= size)

\* a child of the Internal node under remove: the child's Arc and the heap
\* after it, rebuilt when the (shifted) range starts inside the child
RECURSIVE ChunkTreeNode_remove(_, _, _, _)
RemoveChild(h, child, range, n) ==
    IF range.start < ChunkTreeNode_len(h[child])
    THEN LET r == ChunkTreeNode_remove(h, h[child],
                      range_cap(range, ChunkTreeNode_len(h[child])), n)
             a == Arc_new(r.h, r.node)
         IN  [h |-> a.h, id |-> a.id, ok |-> r.ok]
    ELSE [h |-> h, id |-> child, ok |-> TRUE]

ChunkTreeNode_remove(h, node, range, n) ==
    IF ChunkTreeNode_len(node) = 0 /\ Range_is_empty(range)
    THEN Out(h, ChunkTreeNode_empty, TRUE)
    ELSE CASE node.kind = "Leaf" -> RemoveLeaf(h, node.data, range, n)
           [] node.kind = "Gap" -> RemoveGap(h, node.size, range)
           [] node.kind = "Internal" ->
                IF range.start > node.size THEN Out(h, node, TRUE)
                ELSE LET left_len == ChunkTreeNode_len(h[node.left])
                         mid_len == ChunkTreeNode_len(h[node.mid])
                         new_left == RemoveChild(h, node.left, range, n)
                         mid_range == range_shift_left(range, left_len)
                         new_mid == RemoveChild(new_left.h, node.mid, mid_range, n)
                         right_range == range_shift_left(range, left_len + mid_len)
                         new_right == RemoveChild(new_mid.h, node.right,
                                                  right_range, n)
                         hh == new_right.h
                         new_size == ChunkTreeNode_len(hh[new_left.id])
                                       + ChunkTreeNode_len(hh[new_mid.id])
                                       + ChunkTreeNode_len(hh[new_right.id])
                     IN  Out(hh,
                             Internal(new_left.id, new_mid.id, new_right.id,
                                      new_size),
                             /\ new_left.ok /\ new_mid.ok /\ new_right.ok
                             /\ node.size >= new_size
                             /\ node.size - Range_len(range_cap(range, node.size))
                                    = new_size)

\* gap_value repeated size times
Fill(gap_value, size) == [i \in 1..size |-> gap_value]

RECURSIVE collect_bytes_into(_, _, _, _)
collect_bytes_into(h, node, gap_value, output) ==
    CASE node.kind = "Leaf" -> output \o node.data
      [] node.kind = "Gap" -> output \o Fill(gap_value, node.size)
      [] node.kind = "Internal" ->
            collect_bytes_into(h, h[node.right], gap_value,
                collect_bytes_into(h, h[node.mid], gap_value,
                    collect_bytes_into(h, h[node.left], gap_value, output)))

\* struct ChunkTree { root, n }; the tree operations return the heap they
\* leave, the new tree and ok
ChunkTree(root, n) == [root |-> root, n |-> n]

TreeOut(h, tree, ok) == [h |-> h, tree |-> tree, ok |-> ok]

ChunkTree_from_slice(h, data, n) ==
    LET r == ChunkTreeNode_from_slice(h, data, n)
        a == Arc_new(r.h, r.node)
    IN  TreeOut(a.h, ChunkTree(a.id, n), r.ok)

ChunkTree_new(h, n) == ChunkTree_from_slice(h, <<>>, n)

ChunkTree_len(h, t) == ChunkTreeNode_len(h[t.root])

ChunkTree_is_empty(h, t) == ChunkTreeNode_len(h[t.root]) = 0

\* the dense branch of ChunkTree::insert
InsertDenseInPlace(h, t, index, data) ==
    LET r == ChunkTreeNode_insert(h, h[t.root], index, data, t.n)
    IN  TreeOut([r.h EXCEPT ![t.root] = r.node], ChunkTree(t.root, t.n), r.ok)
InsertDense(h, t, index, data) ==
    LET r == ChunkTreeNode_insert(h, h[t.root], index, data, t.n)
        a == Arc_new(r.h, r.node)
    IN  TreeOut(a.h, ChunkTree(a.id, t.n), r.ok)

\* the sparse branch of ChunkTree::insert
InsertSparseGapFromZero(h, t, index, data) ==
    LET a_mid == Arc_new(h, Gap(index))
        right == ChunkTreeNode_from_slice(a_mid.h, data, t.n)
        a_right == Arc_new(right.h, right.node)
        a == Arc_new(a_right.h,
                     Internal(t.root, a_mid.id, a_right.id, index + Len(data)))
    IN  TreeOut(a.h, ChunkTree(a.id, t.n), right.ok)
InsertSparse(h, t, index, data) ==
    LET a_mid == Arc_new(h, Gap(index - ChunkTree_len(h, t)))
        right == ChunkTreeNode_from_slice(a_mid.h, data, t.n)
        a_right == Arc_new(right.h, right.node)
        a == Arc_new(a_right.h,
                     Internal(t.root, a_mid.id, a_right.id, index + Len(data)))
    IN  TreeOut(a.h, ChunkTree(a.id, t.n), right.ok)

ChunkTree_insert(h, t, index, data) ==
    IF index <= ChunkTree_len(h, t)
    THEN InsertDense(h, t, index, data)
    ELSE InsertSparse(h, t, index, data)

\* "sparse remove - do nothing": the same root under a new handle
RemoveSparseEmptied(h, t) == ChunkTree_new(h, t.n)
RemoveSparse(h, t) == TreeOut(h, ChunkTree(t.root, t.n), TRUE)

ChunkTree_remove(h, t, range) ==
    IF range.start < ChunkTree_len(h, t)
    THEN LET r == ChunkTreeNode_remove(h, h[t.root],
                      Range(range.start, Min(ChunkTree_len(h, t), range.end)),
                      t.n)
             a == Arc_new(r.h, r.node)
         IN  TreeOut(a.h, ChunkTree(a.id, t.n), r.ok)
    ELSE RemoveSparse(h, t)

collect_bytes(h, t, gap_value) ==
    collect_bytes_into(h, h[t.root], gap_value, <<>>)

\* ChunkPiece::Data { data } and ChunkPiece::Gap { size }
ChunkPiece_Data(data) == [kind |-> "Data", data |-> data]
ChunkPiece_Gap(size) == [kind |-> "Gap", size |-> size]

\* ChunkTreeNode::iter: the stack holds (node, next_child_index) pairs, its
\* top at the end
ChunkTreeNode_iter(root) == [stack |-> <<<<root, 0>>>>]

\* Iterator::next: Some(piece) with the iterator it leaves, or None
IterNone(it) == [some |-> FALSE, piece |-> ChunkPiece_Gap(0), it |-> it]
IterSome(piece, it) == [some |-> TRUE, piece |-> piece, it |-> it]

\* "hide empty data / empty gaps"
hides_nothing(node) == FALSE
hides(node) == ChunkTreeNode_len(node) = 0

RECURSIVE ChunkTreeIterator_next(_, _)
ChunkTreeIterator_next(h, it) ==
    IF it.stack = <<>> THEN IterNone(it)
    ELSE LET top == it.stack[Len(it.stack)]
             node == h[top[1]]
             child_idx == top[2]
             popped == SubSeq(it.stack, 1, Len(it.stack) - 1)
         IN  IF hides(node)
             THEN ChunkTreeIterator_next(h, [stack |-> popped])
             ELSE CASE node.kind = "Leaf" ->
                         IterSome(ChunkPiece_Data(node.data), [stack |-> popped])
                    [] node.kind = "Gap" ->
                         IterSome(ChunkPiece_Gap(node.size), [stack |-> popped])
                    [] node.kind = "Internal" ->
                         CASE child_idx = 0 ->
                                ChunkTreeIterator_next(h,
                                    [stack |-> popped \o <<<<top[1], 1>>,
                                                           <<node.left, 0>>>>])
                           [] child_idx = 1 ->
                                ChunkTreeIterator_next(h,
                                    [stack |-> popped \o <<<<top[1], 2>>,
                                                           <<node.mid, 0>>>>])
                           [] child_idx = 2 ->
                                ChunkTreeIterator_next(h,
                                    [stack |-> popped \o <<<<node.right, 0>>>>])

\* the pieces a for loop over iter() gets: next() is called until it
\* answers None; `running` says that it had not done so after `calls` calls
RECURSIVE IterPieces(_, _, _, _)
IterPieces(h, it, pieces, calls) ==
    IF calls = 0 THEN [pieces |-> pieces, running |-> TRUE]
    ELSE LET r == ChunkTreeIterator_next(h, it)
         IN  IF ~r.some THEN [pieces |-> pieces, running |-> FALSE]
             ELSE IterPieces(h, r.it, Append(pieces, r.piece), calls - 1)

(***************************************************************************)
(* TextMateHighlighter (src/src/primitives/textmate_highlighter.rs).  The  *)
(* grammar engine is a library; it stands here as two small syntaxes that  *)
(* give every byte of a line its own scope operation, in offset order.     *)
(***************************************************************************)
CachedSpan(start, end, category) ==
    [start |-> start, end |-> end, category |-> category]

\* category.color(theme)
Color(category) == <<"color", category>>

HighlightSpan(span) ==
    [start |-> span.start, end |-> span.end, color |-> Color(span.category)]

NoCategory == [some |-> FALSE, category |-> "none"]
SomeCategory(category) == [some |-> TRUE, category |-> category]

UppercaseLetters ==
    {"A", "B", "C", "D", "E", "F", "G", "H", "I", "J", "K", "L", "M",
     "N", "O", "P", "Q", "R", "S", "T", "U", "V", "W", "X", "Y", "Z"}

\* char::to_lowercase of one character (ASCII)
lower_char(c) ==
    IF c \notin UppercaseLetters THEN c ELSE
    CASE c = "A" -> "a" [] c = "B" -> "b" [] c = "C" -> "c" [] c = "D" -> "d"
      [] c = "E" -> "e" [] c = "F" -> "f" [] c = "G" -> "g" [] c = "H" -> "h"
      [] c = "I" -> "i" [] c = "J" -> "j" [] c = "K" -> "k" [] c = "L" -> "l"
      [] c = "M" -> "m" [] c = "N" -> "n" [] c = "O" -> "o" [] c = "P" -> "p"
      [] c = "Q" -> "q" [] c = "R" -> "r" [] c = "S" -> "s" [] c = "T" -> "t"
      [] c = "U" -> "u" [] c = "V" -> "v" [] c = "W" -> "w" [] c = "X" -> "x"
      [] c = "Y" -> "y" [] c = "Z" -> "z" [] OTHER -> c

\* str::to_lowercase
RECURSIVE to_lowercase(_)
to_lowercase(scope) ==
    IF Len(scope) = 0 THEN scope
    ELSE lower_char(SubSeq(scope, 1, 1)) \o to_lowercase(SubSeq(scope, 2, Len(scope)))

\* str::starts_with
starts_with(scope, prefix) ==
    Len(scope) >= Len(prefix) /\ SubSeq(scope, 1, Len(prefix)) = prefix

\* the "Keywords" test of scope_to_category: a keyword scope that is not a
\* keyword.operator scope
is_keyword_or_operator(scope_lower) ==
    \/ starts_with(scope_lower, "keyword.control")
    \/ starts_with(scope_lower, "keyword.other")
    \/ starts_with(scope_lower, "keyword.declaration")
    \/ starts_with(scope_lower, "keyword")
is_keyword(scope_lower) ==
    /\ \/ starts_with(scope_lower, "keyword.control")
       \/ starts_with(scope_lower, "keyword.other")
       \/ starts_with(scope_lower, "keyword.declaration")
       \/ starts_with(scope_lower, "keyword")
    /\ ~starts_with(scope_lower, "keyword.operator")

scope_to_category(scope) ==
    LET scope_lower == to_lowercase(scope)
        Starts(prefix) == starts_with(scope_lower, prefix)
    IN  IF Starts("comment") THEN SomeCategory("Comment")
        ELSE IF Starts("string") THEN SomeCategory("String")
        ELSE IF Starts("markup.heading") \/ Starts("entity.name.section")
        THEN SomeCategory("Keyword")
        ELSE IF Starts("markup.bold") THEN SomeCategory("Constant")
        ELSE IF Starts("markup.italic") THEN SomeCategory("Variable")
        ELSE IF Starts("markup.raw") \/ Starts("markup.inline.raw")
        THEN SomeCategory("String")
        ELSE IF Starts("markup.underline.link") THEN SomeCategory("Function")
        ELSE IF Starts("markup.underline") THEN SomeCategory("Function")
        ELSE IF Starts("markup.quote") THEN SomeCategory("Comment")
        ELSE IF Starts("markup.list") THEN SomeCategory("Operator")
        ELSE IF Starts("markup.strikethrough") THEN SomeCategory("Comment")
        ELSE IF is_keyword(scope_lower) THEN SomeCategory("Keyword")
        ELSE IF Starts("keyword.operator") \/ Starts("punctuation")
        THEN SomeCategory("Operator")
        ELSE IF \/ Starts("entity.name.function") \/ Starts("support.function")
                \/ Starts("meta.function-call") \/ Starts("variable.function")
        THEN SomeCategory("Function")
        ELSE IF \/ Starts("entity.name.type") \/ Starts("entity.name.class")
                \/ Starts("entity.name.struct") \/ Starts("entity.name.enum")
                \/ Starts("entity.name.interface") \/ Starts("entity.name.trait")
                \/ Starts("support.type") \/ Starts("support.class")
                \/ Starts("storage.type")
        THEN SomeCategory("Type")
        ELSE IF Starts("storage.modifier") THEN SomeCategory("Keyword")
        ELSE IF Starts("constant.numeric") \/ Starts("constant.language.boolean")
        THEN SomeCategory("Number")
        ELSE IF Starts("constant") THEN SomeCategory("Constant")
        ELSE IF \/ Starts("variable.parameter") \/ Starts("variable.other")
                \/ Starts("variable.language")
        THEN SomeCategory("Variable")
        ELSE IF \/ Starts("entity.name.tag") \/ Starts("support.other.property")
                \/ Starts("meta.object-literal.key")
                \/ Starts("variable.other.property")
                \/ Starts("variable.other.object.property")
        THEN SomeCategory("Property")
        ELSE IF \/ Starts("entity.other.attribute") \/ Starts("meta.attribute")
                \/ Starts("entity.name.decorator")
        THEN SomeCategory("Attribute")
        ELSE IF Starts("variable") THEN SomeCategory("Variable")
        ELSE NoCategory

\* what scope_to_category gives for each scope the grammars below push
category_of ==
    ("keyword" :> SomeCategory("Keyword"))
        @@ ("string" :> SomeCategory("String"))
        @@ ("source" :> NoCategory)
scope_stack_to_category(scopes) == category_of[scopes]

Syntaxes == {"words", "mixed"}

ScopeOf(syntax, byte) ==
    CASE byte \in (97..122) \ {115} /\ syntax \in {"words", "strict"} -> "keyword"
      [] byte = 97 /\ syntax = "mixed" -> "keyword"
      [] byte = 98 /\ syntax = "mixed" -> "string"
      [] byte = LF /\ syntax = "mixed" -> "string"
      [] byte = 115 -> "string"
      [] OTHER -> "source"

\* state.parse_line: (offset, op) pairs in offset order, one per byte and
\* one past the last byte
parse_line(syntax, line) ==
    [i \in 1..(Len(line) + 1) |->
        [offset |-> i - 1,
         scope |-> IF i <= Len(line) THEN ScopeOf(syntax, line[i]) ELSE "source"]]

\* state.parse_line returns Err: the grammar "strict" rejects a line that
\* holds a '!'
parse_line_fails(syntax, line) ==
    syntax = "strict" /\ \E i \in 1..Len(line) : line[i] = 33

\* std::str::from_utf8 succeeds (the model's bytes are ASCII or 0xFF)
IsUtf8(bytes) == \A i \in 1..Len(bytes) : bytes[i] < 128

\* buffer.slice_bytes(start..end)
slice_bytes(buf, start, end) == Slice(buf, Min(start, Len(buf)), Min(end, Len(buf)))

\* the inner scan: from line_end to just past the next "\n", "\r\n" or
\* lone "\r", or to the end of the content
RECURSIVE scan_line_end(_, _)
scan_line_end(content_bytes, line_end) ==
    IF line_end >= Len(content_bytes) THEN line_end
    ELSE IF content_bytes[line_end + 1] = LF THEN line_end + 1
    ELSE IF content_bytes[line_end + 1] = CR
         THEN IF line_end + 1 < Len(content_bytes)
                  /\ content_bytes[line_end + 2] = LF
              THEN line_end + 2
              ELSE line_end + 1
    ELSE scan_line_end(content_bytes, line_end + 1)

\* line_str.trim_end_matches(&['\r', '\n'])
RECURSIVE trim_end_matches(_)
trim_end_matches(line) ==
    IF line # <<>> /\ line[Len(line)] \in {CR, LF}
    THEN trim_end_matches(SubSeq(line, 1, Len(line) - 1))
    ELSE line

\* "op_offset.min(line_content_len)": an operation inside the terminator
\* counts as one at the end of the content
unclamped_op_offset(op_offset, line_content_len) == op_offset
clamp_op_offset(op_offset, line_content_len) == Min(op_offset, line_content_len)

\* "for (op_offset, op) in ops": the spans before each operation
RECURSIVE ops_to_spans(_, _, _, _, _, _, _)
ops_to_spans(ops, k, syntect_offset, current_scopes, current_offset, line_content_len, spans) ==
    IF k > Len(ops)
    THEN [spans |-> spans, syntect_offset |-> syntect_offset,
          current_scopes |-> current_scopes]
    ELSE LET clamped_op_offset == clamp_op_offset(ops[k].offset, line_content_len)
             category == scope_stack_to_category(current_scopes)
             byte_start == current_offset + syntect_offset
             byte_end == current_offset + clamped_op_offset
             pushed ==
                 IF clamped_op_offset > syntect_offset /\ category.some
                        /\ byte_start < byte_end
                 THEN Append(spans,
                             CachedSpan(byte_start, byte_end, category.category))
                 ELSE spans
         IN  ops_to_spans(ops, k + 1, clamped_op_offset, ops[k].scope,
                          current_offset, line_content_len, pushed)

\* "Advance by actual byte length (including real line terminator)"
advance_by_content(current_offset, actual_line_byte_len, line_content_len) ==
    current_offset + line_content_len + 1
advance(current_offset, actual_line_byte_len, line_content_len) ==
    current_offset + actual_line_byte_len

\* the "while pos < content_bytes.len()" loop of parse_region; `lines`
\* records, per line, where it lies in the window and the buffer offset its
\* spans are placed from
RECURSIVE parse_lines(_, _, _, _, _, _, _)
parse_lines(syntax, content_bytes, pos, current_offset, current_scopes, spans, lines) ==
    IF pos >= Len(content_bytes) THEN [spans |-> spans, lines |-> lines]
    ELSE LET line_start == pos
             line_end == scan_line_end(content_bytes, pos)
             line_bytes == Slice(content_bytes, line_start, line_end)
             actual_line_byte_len == Len(line_bytes)
             line_content == trim_end_matches(line_bytes)
             line_for_syntect ==
                 IF line_end < Len(content_bytes)
                        \/ (line_bytes # <<>> /\ line_bytes[Len(line_bytes)] = LF)
                 THEN line_content \o <<LF>>
                 ELSE line_content
             ops == parse_line(syntax, line_for_syntect)
             line_content_len == Len(line_content)
             r == ops_to_spans(ops, 1, 0, current_scopes, current_offset,
                               line_content_len, spans)
             category == scope_stack_to_category(r.current_scopes)
             byte_start == current_offset + r.syntect_offset
             byte_end == current_offset + line_content_len
             pushed ==
                 IF r.syntect_offset < line_content_len /\ category.some
                        /\ byte_start < byte_end
                 THEN Append(r.spans,
                             CachedSpan(byte_start, byte_end, category.category))
                 ELSE r.spans
             seen == Append(lines, [line_start |-> line_start,
                                    line_end |-> line_end,
                                    offset |-> current_offset])
             next_offset == advance(current_offset, actual_line_byte_len,
                                    line_content_len)
         IN  IF ~IsUtf8(line_bytes) \/ parse_line_fails(syntax, line_for_syntect)
             THEN parse_lines(syntax, content_bytes, line_end, next_offset,
                              current_scopes, spans, seen)
             ELSE parse_lines(syntax, content_bytes, line_end, next_offset,
                              r.current_scopes, pushed, seen)

\* two spans merge when their categories are equal and they touch
should_merge_same_category(a, b) == a.category = b.category
should_merge(a, b) == a.category = b.category /\ a.end = b.start

RECURSIVE merge_loop(_, _, _)
merge_loop(spans, write_idx, read_idx) ==
    IF read_idx > Len(spans) THEN SubSeq(spans, 1, write_idx)
    ELSE IF should_merge(spans[write_idx], spans[read_idx])
         THEN merge_loop([spans EXCEPT ![write_idx].end = spans[read_idx].end],
                         write_idx, read_idx + 1)
         ELSE merge_loop(IF write_idx + 1 # read_idx
                         THEN [spans EXCEPT ![write_idx + 1] = spans[read_idx]]
                         ELSE spans,
                         write_idx + 1, read_idx + 1)

merge_adjacent_spans(spans) ==
    IF Len(spans) < 2 THEN spans ELSE merge_loop(spans, 1, 2)

\* the lines parse_region walks through in the window [start_byte, end_byte)
region_lines(syntax, buf, start_byte, end_byte) ==
    LET content == slice_bytes(buf, start_byte, end_byte)
    IN  IF ~IsUtf8(content) THEN <<>>
        ELSE parse_lines(syntax, content, 0, start_byte, "source", <<>>, <<>>).lines

parse_region(syntax, buf, start_byte, end_byte) ==
    LET content == slice_bytes(buf, start_byte, end_byte)
    IN  IF ~IsUtf8(content) THEN <<>>
        ELSE merge_adjacent_spans(
                 parse_lines(syntax, content, 0, start_byte, "source",
                             <<>>, <<>>).spans)

\* the filter of both paths of highlight_viewport
overlaps_or_touches(span, viewport_start, viewport_end) ==
    span.start <= viewport_end /\ span.end >= viewport_start
overlaps(span, viewport_start, viewport_end) ==
    span.start < viewport_end /\ span.end > viewport_start

filter_and_resolve(spans, viewport_start, viewport_end) ==
    LET Keep(span) == overlaps(span, viewport_start, viewport_end)
        kept == SelectSeq(spans, Keep)
    IN  [i \in 1..Len(kept) |-> HighlightSpan(kept[i])]

NoCache == [some |-> FALSE, range |-> Range(0, 0), spans |-> <<>>]
TextMateCache(range, spans) == [some |-> TRUE, range |-> range, spans |-> spans]

\* TextMateHighlighter::new
TextMateHighlighter_new(syntax) ==
    [syntax |-> syntax, cache |-> NoCache, last_buffer_len |-> 0]

cache_hit_any_length(self, buf, viewport_start, viewport_end) ==
    /\ self.cache.some
    /\ self.cache.range.start <= viewport_start
    /\ self.cache.range.end >= viewport_end
cache_hit(self, buf, viewport_start, viewport_end) ==
    /\ self.cache.some
    /\ self.cache.range.start <= viewport_start
    /\ self.cache.range.end >= viewport_end
    /\ self.last_buffer_len = Len(buf)

\* "Limit parse size for safety"
too_large_never(parse_range) == FALSE
too_large(parse_range) == Range_len(parse_range) > MAX_PARSE_BYTES

\* highlight_viewport: the spans returned and the highlighter afterwards;
\* hit and parsed tell the path taken
highlight_viewport_stale_length(self, buf, viewport_start, viewport_end, context_bytes) ==
    IF cache_hit(self, buf, viewport_start, viewport_end)
    THEN [spans |-> filter_and_resolve(self.cache.spans, viewport_start,
                                       viewport_end),
          self |-> self, hit |-> TRUE, parsed |-> FALSE]
    ELSE LET parse_start == saturating_sub(viewport_start, context_bytes)
             parse_end == Min(viewport_end + context_bytes, Len(buf))
             parse_range == Range(parse_start, parse_end)
             cached_spans == parse_region(self.syntax, buf, parse_start, parse_end)
         IN  IF too_large(parse_range)
             THEN [spans |-> <<>>, self |-> self, hit |-> FALSE, parsed |-> FALSE]
             ELSE [spans |-> filter_and_resolve(cached_spans, viewport_start,
                                                viewport_end),
                   self |-> [self EXCEPT
                               !.cache = TextMateCache(parse_range, cached_spans)],
                   hit |-> FALSE, parsed |-> TRUE]
highlight_viewport(self, buf, viewport_start, viewport_end, context_bytes) ==
    IF cache_hit(self, buf, viewport_start, viewport_end)
    THEN [spans |-> filter_and_resolve(self.cache.spans, viewport_start,
                                       viewport_end),
          self |-> self, hit |-> TRUE, parsed |-> FALSE]
    ELSE LET parse_start == saturating_sub(viewport_start, context_bytes)
             parse_end == Min(viewport_end + context_bytes, Len(buf))
             parse_range == Range(parse_start, parse_end)
             cached_spans == parse_region(self.syntax, buf, parse_start, parse_end)
         IN  IF too_large(parse_range)
             THEN [spans |-> <<>>, self |-> self, hit |-> FALSE, parsed |-> FALSE]
             ELSE [spans |-> filter_and_resolve(cached_spans, viewport_start,
                                                viewport_end),
                   self |-> [self EXCEPT
                               !.cache = TextMateCache(parse_range, cached_spans),
                               !.last_buffer_len = Len(buf)],
                   hit |-> FALSE, parsed |-> TRUE]

invalidate_range_touching(self, edit_range) ==
    IF self.cache.some /\ edit_range.start <= self.cache.range.end
           /\ edit_range.end >= self.cache.range.start
    THEN [self EXCEPT !.cache = NoCache]
    ELSE self
invalidate_range(self, edit_range) ==
    IF self.cache.some /\ edit_range.start < self.cache.range.end
           /\ edit_range.end > self.cache.range.start
    THEN [self EXCEPT !.cache = NoCache]
    ELSE self

invalidate_all(self) == [self EXCEPT !.cache = NoCache]

(***************************************************************************)
(* The edit session of prop_operations_maintain_consistency: the buffer    *)
(* and a plain vector receive the same inserts and deletes.                *)
(***************************************************************************)
RECURSIVE SumArena(_)
SumArena(bufs) ==
    IF bufs = <<>> THEN 0 ELSE Len(Head(bufs).data) + SumArena(Tail(bufs))

bufferVars == <<buffer, expected_text>>
chunkVars == <<heap, versions, snapshots, call, panicked>>
hlVars == <<hl_buffer, highlighter, cache_source>>
fnVars == <<fn_input, fn_output>>
keyVars == <<cursor_position>>
vars ==
    <<buffer, expected_text, heap, versions, snapshots, call, panicked,
      piece_snapshot, hl_buffer, highlighter, cache_source,
      fn_input, fn_output, cursor_position>>

BufferInit ==
    \/ \E content \in InitContents :
          /\ buffer = TextBuffer_new(content)
          /\ expected_text = content
    \/ /\ buffer = TextBuffer_empty
       /\ expected_text = <<>>

\* Operation::Insert { offset, text }
InsertBytes ==
    /\ \E offset \in 0..(total_bytes(buffer) + 1), text \in Texts :
          /\ SumArena(buffer.buffers) + Len(text) <= MaxArenaBytes
          /\ buffer' = insert_bytes(buffer, offset, text)
          /\ expected_text' =
                 Splice(expected_text, Min(offset, Len(expected_text)), text)
    /\ UNCHANGED <<chunkVars, piece_snapshot, hlVars, fnVars, keyVars>>

\* Operation::Delete { offset, bytes }
DeleteBytes ==
    /\ \E offset \in 0..(total_bytes(buffer) + 1), bytes \in 0..MaxDeleteLen :
          /\ buffer' = delete_bytes(buffer, offset, bytes)
          /\ expected_text' =
                 IF offset < Len(expected_text)
                 THEN Drain(expected_text, offset,
                            offset + Min(bytes, Len(expected_text) - offset))
                 ELSE expected_text
    /\ UNCHANGED <<chunkVars, piece_snapshot, hlVars, fnVars, keyVars>>

(***************************************************************************)
(* A session over chunk trees: every version made stays in `versions`, and *)
(* insert and remove may be called on any of them.                         *)
(***************************************************************************)
\* what a reader of version t sees: len() and collect_bytes(g) per gap byte
Snapshot(h, t) ==
    [len |-> ChunkTree_len(h, t),
     bytes |-> [g \in GapBytes |-> collect_bytes(h, t, g)]]

Call(op, v, index, data, start, end) ==
    [op |-> op, v |-> v, index |-> index, data |-> data,
     start |-> start, end |-> end]

\* the outcome r of a tree operation becomes the newest version; a panic
\* ends the session
Record(r, c) ==
    /\ call' = c
    /\ IF r.ok
       THEN /\ heap' = r.h
            /\ versions' = Append(versions, r.tree)
            /\ snapshots' = Append(snapshots, Snapshot(r.h, r.tree))
            /\ panicked' = FALSE
       ELSE /\ panicked' = TRUE
            /\ UNCHANGED <<heap, versions, snapshots>>

\* ChunkTree::from_slice(data, n), and ChunkTree::new(n) for empty data; a
\* construction that panics leaves no tree
ChunkInit ==
    \E n \in 0..MaxLeaf, data \in ChunkInitData :
        LET r == ChunkTree_from_slice(<<>>, data, n)
        IN  /\ call = Call("from_slice", 0, 0, data, 0, 0)
            /\ IF r.ok
               THEN /\ heap = r.h
                    /\ versions = <<r.tree>>
                    /\ snapshots = <<Snapshot(r.h, r.tree)>>
                    /\ panicked = FALSE
               ELSE /\ heap = <<>>
                    /\ versions = <<>>
                    /\ snapshots = <<>>
                    /\ panicked = TRUE

\* versions[v].insert(index, data)
ChunkInsert ==
    /\ ~panicked
    /\ Len(versions) < MaxVersions
    /\ \E v \in 1..Len(versions), data \in ChunkData :
          \E index \in 0..(ChunkTree_len(heap, versions[v]) + MaxPast) :
              LET r == ChunkTree_insert(heap, versions[v], index, data)
              IN  /\ Len(r.h) <= MaxNodes
                  /\ Record(r, Call("insert", v, index, data, 0, 0))
    /\ UNCHANGED <<bufferVars, piece_snapshot, hlVars, fnVars, keyVars>>

\* versions[v].remove(start..end)
ChunkRemove ==
    /\ ~panicked
    /\ Len(versions) < MaxVersions
    /\ \E v \in 1..Len(versions) :
          \E start \in 0..(ChunkTree_len(heap, versions[v]) + MaxPast) :
              \E end \in start..(ChunkTree_len(heap, versions[v]) + MaxPast) :
                  LET r == ChunkTree_remove(heap, versions[v], Range(start, end))
                  IN  /\ Len(r.h) <= MaxNodes
                      /\ Record(r, Call("remove", v, 0, <<>>, start, end))
    /\ UNCHANGED <<bufferVars, piece_snapshot, hlVars, fnVars, keyVars>>

\* the chunk-tree variables while the text buffer is the subject
ChunkIdle ==
    /\ heap = <<>>
    /\ versions = <<>>
    /\ snapshots = <<>>
    /\ call = Call("none", 0, 0, <<>>, 0, 0)
    /\ panicked = FALSE

\* the text-buffer variables while the chunk tree is the subject
BufferIdle ==
    /\ buffer = TextBuffer_empty
    /\ expected_text = <<>>

\* no reader holds a snapshot of the piece tree
NoSnapshot == [taken |-> FALSE, piece_tree |-> PieceTree_empty, text |-> <<>>]
SnapshotIdle == piece_snapshot = NoSnapshot

\* the highlighter variables while another component is the subject
NoSource == [bytes |-> <<>>, edits |-> 0]
HlIdle ==
    /\ hl_buffer = <<>>
    /\ highlighter = TextMateHighlighter_new("words")
    /\ cache_source = NoSource

\* no function is being called on its own
NotCalled == [done |-> FALSE, spans |-> <<>>, lines |-> <<>>]
FnIdle ==
    /\ fn_input = [fn |-> "none"]
    /\ fn_output = NotCalled

\* no editor is open
KeyIdle == cursor_position = 0

Init == BufferInit /\ ChunkIdle /\ SnapshotIdle /\ KeyIdle /\ HlIdle /\ FnIdle

Next == InsertBytes \/ DeleteBytes

Spec == Init /\ [][Next]_vars

ChunkSpecInit == ChunkInit /\ BufferIdle /\ SnapshotIdle /\ KeyIdle /\ HlIdle /\ FnIdle

ChunkNext == ChunkInsert \/ ChunkRemove

ChunkSpec == ChunkSpecInit /\ [][ChunkNext]_vars

(***************************************************************************)
(* A session in which a reader captures the piece tree once (a clone of    *)
(* the reference-counted tree) while the owner goes on editing.  The       *)
(* reader reads its pieces out of the arenas as they are when it reads.    *)
(***************************************************************************)
\* the bytes the captured pieces read as, out of the arenas of `self`
read_snapshot(self, snap) ==
    get_all_text([self EXCEPT !.piece_tree = snap.piece_tree])

\* the reader takes its snapshot
Capture ==
    /\ ~piece_snapshot.taken
    /\ piece_snapshot' = [taken |-> TRUE, piece_tree |-> buffer.piece_tree,
                          text |-> get_all_text(buffer)]
    /\ UNCHANGED <<bufferVars, chunkVars, hlVars, fnVars, keyVars>>

\* the owner's insert_bytes
SnapshotInsert ==
    /\ \E offset \in 0..(total_bytes(buffer) + 1), text \in Texts :
          /\ SumArena(buffer.buffers) + Len(text) <= MaxSnapshotBytes
          /\ buffer' = insert_bytes(buffer, offset, text)
          /\ expected_text' =
                 Splice(expected_text, Min(offset, Len(expected_text)), text)
    /\ UNCHANGED <<chunkVars, piece_snapshot, hlVars, fnVars, keyVars>>

\* the owner's delete_bytes
SnapshotDelete ==
    /\ \E offset \in 0..(total_bytes(buffer) + 1), bytes \in 0..MaxDeleteLen :
          /\ buffer' = delete_bytes(buffer, offset, bytes)
          /\ expected_text' =
                 IF offset < Len(expected_text)
                 THEN Drain(expected_text, offset,
                            offset + Min(bytes, Len(expected_text) - offset))
                 ELSE expected_text
    /\ UNCHANGED <<chunkVars, piece_snapshot, hlVars, fnVars, keyVars>>

SnapshotNext == Capture \/ SnapshotInsert \/ SnapshotDelete

SnapshotSpec == Init /\ [][SnapshotNext]_vars

(***************************************************************************)
(* Properties of the TextBuffer, checked under Spec.                       *)
(***************************************************************************)
\* C1: after every sequence of insert_bytes and delete_bytes, get_all_text()
\* equals the reference vector that received the same splices and drains,
\* and total_bytes() equals that vector's length.
C1_MatchesReference ==
    /\ get_all_text(buffer) = expected_text
    /\ total_bytes(buffer) = Len(expected_text)

\* an Added arena that grew past the longest single text: a coalesced append
Coalesced == \E i \in 2..Len(buffer.buffers) : Len(buffer.buffers[i].data) >= 3

\* bytes were deleted: the arenas hold more than the document
Deleted == SumArena(buffer.buffers) > total_bytes(buffer)

\* C1 witness: a document of several pieces over several arenas, after a
\* coalesced append and a delete
C1_Witness ==
    /\ Coalesced /\ Deleted
    /\ Len(buffer.piece_tree.pieces) >= 2
    /\ get_all_text(buffer) = expected_text
    /\ Len(expected_text) >= 2

\* C2: line_count() is the number of '\n' bytes of get_all_text() plus 1, so
\* it is never 0 and an empty buffer has line_count 1.
NewlinesOf(content) == Cardinality({i \in DOMAIN content : content[i] = LF})
C2_LineCount ==
    /\ line_count(buffer) = NewlinesOf(get_all_text(buffer)) + 1
    /\ line_count(buffer) >= 1
    /\ (total_bytes(buffer) = 0 => line_count(buffer) = 1)

\* C2 witness: two lines left after a coalesced append and a delete that
\* cut a piece holding a '\n'
C2_Witness ==
    /\ Coalesced /\ Deleted
    /\ line_count(buffer) = 2
    /\ \E i \in 2..Len(buffer.buffers) :
          NewlinesOf(buffer.buffers[i].data) > NewlinesOf(get_all_text(buffer))

C4_TextRange ==
    \A o \in 0..total_bytes(buffer) :
        \A k \in 0..(total_bytes(buffer) - o) :
            get_text_range(buffer, o, k) = Slice(get_all_text(buffer), o, o + k)

\* C4 witness: a range that starts inside one piece and ends inside a piece
\* of another arena
C4_Witness ==
    \E o \in 1..total_bytes(buffer) :
        \E k \in 2..(total_bytes(buffer) - o) :
            LET first == PieceTree_find_by_offset(buffer.piece_tree, o)
                last == PieceTree_find_by_offset(buffer.piece_tree, o + k - 1)
            IN  /\ first.found /\ last.found
                /\ first.offset_in_piece >= 1
                /\ last.offset_in_piece + 1 < last.bytes
                /\ first.location # last.location
                /\ get_text_range(buffer, o, k) = Slice(expected_text, o, o + k)

(***************************************************************************)
(* A session of the viewport highlighter: the owner edits the buffer,      *)
(* reports every edit through invalidate_range, and asks for viewports.    *)
(***************************************************************************)
HlInitContents ==
    {<<>>, <<97, CR, LF, 98>>, <<97, 98, 32, 115>>, <<255, LF, 97>>}
HlBytes == {LF}
ContextBytes == {0, 1}

HlInit ==
    /\ hl_buffer \in HlInitContents
    /\ \E syntax \in Syntaxes : highlighter = TextMateHighlighter_new(syntax)
    /\ cache_source = NoSource
    /\ BufferIdle /\ ChunkIdle /\ SnapshotIdle /\ KeyIdle /\ FnIdle

\* the ghost after a step that leaves the highlighter as `self`
SourceAfter(self, edited) ==
    [bytes |-> IF self.cache.some THEN cache_source.bytes ELSE <<>>,
     edits |-> cache_source.edits + (IF edited THEN 1 ELSE 0)]

\* highlight_viewport(buffer, viewport_start, viewport_end, theme, context_bytes)
HlHighlight ==
    /\ \E viewport_start \in 0..(Len(hl_buffer) + 1), context_bytes \in ContextBytes :
          \E viewport_end \in viewport_start..(Len(hl_buffer) + 1) :
              LET r == highlight_viewport(highlighter, hl_buffer, viewport_start,
                                          viewport_end, context_bytes)
              IN  /\ highlighter' = r.self
                  /\ cache_source' =
                         IF r.parsed
                         THEN [cache_source EXCEPT !.bytes = hl_buffer]
                         ELSE cache_source
    /\ UNCHANGED <<hl_buffer, bufferVars, chunkVars, piece_snapshot, fnVars, keyVars>>

\* an insert into the buffer, reported as the range of the inserted bytes
HlInsert ==
    /\ Len(hl_buffer) < MaxHlLen
    /\ cache_source.edits < MaxEdits
    /\ \E offset \in 0..Len(hl_buffer), byte \in HlBytes :
          LET self == invalidate_range(highlighter, Range(offset, offset + 1))
          IN  /\ hl_buffer' = Splice(hl_buffer, offset, <<byte>>)
              /\ highlighter' = self
              /\ cache_source' = SourceAfter(self, TRUE)
    /\ UNCHANGED <<bufferVars, chunkVars, piece_snapshot, fnVars, keyVars>>

\* a delete from the buffer, reported as the range of the deleted bytes
HlDelete ==
    /\ cache_source.edits < MaxEdits
    /\ \E offset \in 0..(Len(hl_buffer) - 1) :
          LET self == invalidate_range(highlighter, Range(offset, offset + 1))
          IN  /\ hl_buffer' = Drain(hl_buffer, offset, offset + 1)
              /\ highlighter' = self
              /\ cache_source' = SourceAfter(self, TRUE)
    /\ UNCHANGED <<bufferVars, chunkVars, piece_snapshot, fnVars, keyVars>>

\* invalidate_all()
HlInvalidateAll ==
    /\ highlighter.cache.some
    /\ highlighter' = invalidate_all(highlighter)
    /\ cache_source' = SourceAfter(invalidate_all(highlighter), FALSE)
    /\ UNCHANGED <<hl_buffer, bufferVars, chunkVars, piece_snapshot, fnVars, keyVars>>

HlNext == HlHighlight \/ HlInsert \/ HlDelete \/ HlInvalidateAll

HlSpec == HlInit /\ [][HlNext]_vars

\* the same session over one document, "ab s", and one grammar
HlCacheInit ==
    /\ hl_buffer = <<97, 98, 32, 115>>
    /\ highlighter = TextMateHighlighter_new("words")
    /\ cache_source = NoSource
    /\ BufferIdle /\ ChunkIdle /\ SnapshotIdle /\ KeyIdle /\ FnIdle

HlCacheSpec == HlCacheInit /\ [][HlNext]_vars

(***************************************************************************)
(* merge_adjacent_spans and the line scanner of parse_region, each called  *)
(* once on an argument drawn from a bounded set.                           *)
(***************************************************************************)
Categories == {"Keyword", "String"}

SpanSet ==
    {CachedSpan(range[1], range[2], category) :
        range \in {r \in (0..MaxPos) \X (0..MaxPos) : r[1] <= r[2]},
        category \in Categories}

\* span lists sorted by start
SpanLists ==
    {spans \in UNION {[1..n -> SpanSet] : n \in 0..MaxSpans} :
        \A i \in 1..(Len(spans) - 1) : spans[i].start <= spans[i + 1].start}

ScanBytes == {97, CR, LF}

\* "public\r\npublic\r\npublic\r\n"
PublicLine == <<112, 117, 98, 108, 105, 99, CR, LF>>
PublicCrlf == PublicLine \o PublicLine \o PublicLine

Windows ==
    UNION {[1..n -> ScanBytes] : n \in 0..MaxScanLen} \cup {PublicCrlf}

\* windows with lines that are not UTF-8 (0xFF) or that a grammar rejects
ParseBytes == {97, LF, 33, 255}
ParseWindows == UNION {[1..n -> ParseBytes] : n \in 0..MaxScanLen}
ParseSyntaxes == {"words", "strict"}

\* scope strings: every prefix scope_to_category tests and some that match
\* none, each alone and followed by more of a scope name
ScopeStems ==
    {"comment", "string", "markup.heading", "entity.name.section",
     "markup.bold", "markup.italic", "markup.raw", "markup.inline.raw",
     "markup.underline.link", "markup.underline", "markup.quote",
     "markup.list", "markup.strikethrough", "keyword.control",
     "keyword.other", "keyword.declaration", "keyword", "keyword.operator",
     "punctuation", "entity.name.function", "support.function",
     "meta.function-call", "variable.function", "entity.name.type",
     "entity.name.class", "entity.name.struct", "entity.name.enum",
     "entity.name.interface", "entity.name.trait", "support.type",
     "support.class", "storage.type", "storage.modifier",
     "constant.numeric", "constant.language.boolean", "constant",
     "variable.parameter", "variable.other", "variable.language",
     "entity.name.tag", "support.other.property", "meta.object-literal.key",
     "variable.other.property", "variable.other.object.property",
     "entity.other.attribute", "meta.attribute", "entity.name.decorator",
     "variable",
     "", "source", "markup", "entity.name", "entity", "support", "storage",
     "meta", "constant.language", "keywor", "text.html", "invalid"}
ScopeTails == {"", ".rust", "s", ".operator", ".link", ".property"}
\* scopes written with capitals
ScopeCapitals ==
    {"Comment.Line", "STRING.QUOTED", "Keyword.Operator.Rust", "KEYWORD",
     "Markup.Underline.Link", "Variable.Other.Property", "Punctuation",
     "Constant.Numeric", "Storage.Modifier", "SOURCE"}
Scopes == {stem \o tail : stem \in ScopeStems, tail \in ScopeTails} \cup ScopeCapitals

FnInit ==
    /\ \/ \E spans \in SpanLists : fn_input = [fn |-> "merge", spans |-> spans]
       \/ \E scope \in Scopes : fn_input = [fn |-> "scope", scope |-> scope]
       \/ \E content \in ParseWindows, syntax \in ParseSyntaxes,
              parse_start \in {0, 2} :
              fn_input = [fn |-> "parse", content |-> content,
                          syntax |-> syntax, parse_start |-> parse_start]
       \/ \E content \in Windows, parse_start \in {0, 2} :
              fn_input = [fn |-> "scan", content |-> content,
                          parse_start |-> parse_start]
       \/ \E len \in 0..MaxSliceLen, n \in 1..MaxSliceLeaf :
              fn_input = [fn |-> "from_slice", data |-> [i \in 1..len |-> 96 + i],
                          n |-> n]
    /\ fn_output = NotCalled
    /\ BufferIdle /\ ChunkIdle /\ SnapshotIdle /\ KeyIdle /\ HlIdle

\* merge_adjacent_spans(&mut spans)
ApplyMerge ==
    /\ fn_input.fn = "merge" /\ ~fn_output.done
    /\ fn_output' = [done |-> TRUE,
                     spans |-> merge_adjacent_spans(fn_input.spans),
                     lines |-> <<>>]
    /\ UNCHANGED <<fn_input, bufferVars, chunkVars, piece_snapshot, hlVars, keyVars>>

\* parse_region(buffer, parse_start, parse_start + |content|), the window
\* lying parse_start bytes into the buffer
ApplyScan ==
    /\ fn_input.fn = "scan" /\ ~fn_output.done
    /\ LET buf == Fill(32, fn_input.parse_start) \o fn_input.content
           parse_end == fn_input.parse_start + Len(fn_input.content)
       IN  fn_output' =
               [done |-> TRUE,
                spans |-> parse_region("words", buf, fn_input.parse_start,
                                       parse_end),
                lines |-> region_lines("words", buf, fn_input.parse_start,
                                       parse_end)]
    /\ UNCHANGED <<fn_input, bufferVars, chunkVars, piece_snapshot, hlVars, keyVars>>

\* parse_region over a window that may hold lines it has to skip
ApplyParse ==
    /\ fn_input.fn = "parse" /\ ~fn_output.done
    /\ LET buf == Fill(32, fn_input.parse_start) \o fn_input.content
           parse_end == fn_input.parse_start + Len(fn_input.content)
       IN  fn_output' =
               [done |-> TRUE,
                spans |-> parse_region(fn_input.syntax, buf,
                                       fn_input.parse_start, parse_end),
                lines |-> <<>>]
    /\ UNCHANGED <<fn_input, bufferVars, chunkVars, piece_snapshot, hlVars, keyVars>>

\* scope_to_category(scope)
ApplyScope ==
    /\ fn_input.fn = "scope" /\ ~fn_output.done
    /\ fn_output' = [done |-> TRUE, spans |-> <<>>, lines |-> <<>>,
                     category |-> scope_to_category(fn_input.scope)]
    /\ UNCHANGED <<fn_input, bufferVars, chunkVars, piece_snapshot, hlVars, keyVars>>

\* ChunkTreeNode::from_slice(data, n), the nodes allocated into an empty heap
ApplyFromSlice ==
    /\ fn_input.fn = "from_slice" /\ ~fn_output.done
    /\ fn_output' = [done |-> TRUE, spans |-> <<>>, lines |-> <<>>,
                     tree |-> ChunkTreeNode_from_slice(<<>>, fn_input.data,
                                                       fn_input.n)]
    /\ UNCHANGED <<fn_input, bufferVars, chunkVars, piece_snapshot, hlVars, keyVars>>

FnNext == ApplyMerge \/ ApplyScan \/ ApplyParse \/ ApplyScope \/ ApplyFromSlice

FnSpec == FnInit /\ [][FnNext]_vars

(***************************************************************************)
(* The editor under key presses, as the test harness drives it: a key is   *)
(* turned into an action, the action into edits of the active buffer and   *)
(* moves of the primary cursor.                                            *)
(***************************************************************************)
\* the characters typed: "a", "\u{e6}", "\u{20ac}", "\u{1f600}" in UTF-8
KeyChars ==
    {<<97>>, <<195, 166>>, <<226, 130, 172>>, <<240, 159, 152, 128>>}

\* a byte of the form 10xxxxxx
is_continuation_byte(byte) == byte >= 128 /\ byte <= 191

\* the largest code-point boundary before p (p > 0)
RECURSIVE prev_char_boundary(_, _)
prev_byte_position(text, p) == p - 1
prev_char_boundary(text, p) ==
    LET q == p - 1
    IN  IF q > 0 /\ is_continuation_byte(text[q + 1])
        THEN prev_char_boundary(text, q)
        ELSE q

\* the smallest code-point boundary after p (p < len)
RECURSIVE next_char_boundary(_, _)
next_char_boundary(text, p) ==
    LET q == p + 1
    IN  IF q < Len(text) /\ is_continuation_byte(text[q + 1])
        THEN next_char_boundary(text, q)
        ELSE q

\* the start of the line the cursor is in
RECURSIVE line_start_of(_, _)
line_start_of(text, p) ==
    IF p = 0 \/ text[p] = LF THEN p ELSE line_start_of(text, p - 1)

\* the editor after an action: its buffer and its primary cursor
EditorState(buf, position) == [buffer |-> buf, cursor |-> position]

\* Action::InsertChar(c)
insert_char(self, position, char) ==
    EditorState(insert_bytes(self, position, char), position + Len(char))

\* Action::DeleteBackward
delete_backward(self, position) ==
    IF position = 0 THEN EditorState(self, position)
    ELSE LET q == prev_char_boundary(get_all_text(self), position)
         IN  EditorState(delete_bytes(self, q, position - q), q)

\* Action::DeleteForward
delete_forward(self, position) ==
    IF position >= total_bytes(self) THEN EditorState(self, position)
    ELSE LET q == next_char_boundary(get_all_text(self), position)
         IN  EditorState(delete_bytes(self, position, q - position), position)

\* Action::MoveLeft, Action::MoveRight, Action::MoveLineStart
move_left(self, position) ==
    IF position = 0 THEN 0 ELSE prev_char_boundary(get_all_text(self), position)
move_right(self, position) ==
    IF position >= total_bytes(self) THEN position
    ELSE next_char_boundary(get_all_text(self), position)
move_line_start(self, position) == line_start_of(get_all_text(self), position)

\* EditorTestHarness::new: an editor with one empty buffer
KeyInit ==
    /\ buffer = TextBuffer_empty
    /\ expected_text = <<>>
    /\ cursor_position = 0
    /\ ChunkIdle /\ SnapshotIdle /\ HlIdle /\ FnIdle

\* send_key(KeyCode::Char(c))
KeyChar ==
    /\ \E char \in KeyChars :
          /\ SumArena(buffer.buffers) + Len(char) <= MaxKeyBytes
          /\ LET after == insert_char(buffer, cursor_position, char)
             IN  /\ buffer' = after.buffer
                 /\ cursor_position' = after.cursor
    /\ UNCHANGED <<expected_text, chunkVars, piece_snapshot, hlVars, fnVars>>

\* send_key(KeyCode::Backspace)
KeyBackspace ==
    /\ LET after == delete_backward(buffer, cursor_position)
       IN  /\ buffer' = after.buffer
           /\ cursor_position' = after.cursor
    /\ UNCHANGED <<expected_text, chunkVars, piece_snapshot, hlVars, fnVars>>

\* send_key(KeyCode::Delete)
KeyDelete ==
    /\ LET after == delete_forward(buffer, cursor_position)
       IN  /\ buffer' = after.buffer
           /\ cursor_position' = after.cursor
    /\ UNCHANGED <<expected_text, chunkVars, piece_snapshot, hlVars, fnVars>>

\* send_key(KeyCode::Left), send_key(KeyCode::Right), send_key(KeyCode::Home)
KeyLeft ==
    /\ cursor_position' = move_left(buffer, cursor_position)
    /\ UNCHANGED <<bufferVars, chunkVars, piece_snapshot, hlVars, fnVars>>

KeyRight ==
    /\ cursor_position' = move_right(buffer, cursor_position)
    /\ UNCHANGED <<bufferVars, chunkVars, piece_snapshot, hlVars, fnVars>>

KeyHome ==
    /\ cursor_position' = move_line_start(buffer, cursor_position)
    /\ UNCHANGED <<bufferVars, chunkVars, piece_snapshot, hlVars, fnVars>>

KeyNext ==
    KeyChar \/ KeyBackspace \/ KeyDelete \/ KeyLeft \/ KeyRight \/ KeyHome

KeySpec == KeyInit /\ [][KeyNext]_vars

\* bytes a UTF-8 sequence has by its first byte; 0 for a byte that starts none
Utf8Width(lead) ==
    CASE lead < 128 -> 1
      [] lead >= 194 /\ lead <= 223 -> 2
      [] lead >= 224 /\ lead <= 239 -> 3
      [] lead >= 240 /\ lead <= 244 -> 4
      [] OTHER -> 0

\* the bytes decode as a sequence of whole code points
RECURSIVE ValidUtf8(_)
ValidUtf8(bytes) ==
    IF bytes = <<>> THEN TRUE
    ELSE LET width == Utf8Width(bytes[1])
         IN  /\ width > 0 /\ width <= Len(bytes)
             /\ \A k \in 2..width : bytes[k] >= 128 /\ bytes[k] <= 191
             /\ ValidUtf8(SubSeq(bytes, width + 1, Len(bytes)))

\* position q of the text is a code-point boundary: the byte there is not
\* of the form 10xxxxxx (the end of the text is one)
Boundary(text, q) ==
    q = Len(text) \/ ~(text[q + 1] >= 128 /\ text[q + 1] <= 191)

\* C25: Backspace at byte position p > 0 deletes [q, p) where q is the
\* largest code-point boundary below p, forward Delete at p deletes [p, q')
\* where q' is the smallest boundary above p; so the buffer stays valid UTF-8
\* after any sequence of such deletes ("a\u{20ac}" -> "a", "\u{20ac}" -> "",
\* "\u{20ac}b" -> "b").
C25_DeleteWholeCodePoint ==
    LET text == get_all_text(buffer)
        p == cursor_position
        back == delete_backward(buffer, p)
        forward == delete_forward(buffer, p)
        euro == <<226, 130, 172>>
    IN  /\ ValidUtf8(text)
        /\ p > 0 =>
              /\ back.cursor < p /\ Boundary(text, back.cursor)
              /\ \A k \in (back.cursor + 1)..(p - 1) : ~Boundary(text, k)
              /\ get_all_text(back.buffer) = Drain(text, back.cursor, p)
              /\ ValidUtf8(get_all_text(back.buffer))
        /\ p < Len(text) =>
              LET q == Len(text) - Len(get_all_text(forward.buffer)) + p
              IN  /\ q > p /\ Boundary(text, q)
                  /\ \A k \in (p + 1)..(q - 1) : ~Boundary(text, k)
                  /\ get_all_text(forward.buffer) = Drain(text, p, q)
                  /\ forward.cursor = p
                  /\ ValidUtf8(get_all_text(forward.buffer))
        /\ (text = <<97>> \o euro /\ p = 4) => get_all_text(back.buffer) = <<97>>
        /\ (text = euro /\ p = 3) => get_all_text(back.buffer) = <<>>
        /\ (text = euro \o <<98>> /\ p = 0) =>
              get_all_text(forward.buffer) = <<98>>

\* C25 witness: "a" and the euro sign were typed and the three bytes of the
\* euro sign deleted again; the cursor stands after the "a"
C25_Witness ==
    /\ get_all_text(buffer) = <<97>>
    /\ SumArena(buffer.buffers) = 4
    /\ cursor_position = 1
    /\ Len(buffer.piece_tree.pieces) = 1

\* C11: delete_bytes(offset, len) leaves the buffer completely unchanged when
\* len = 0 or offset >= total_bytes(); otherwise it removes exactly the bytes
\* [offset, min(offset + len, total_bytes())): a length past the end is
\* clamped.
C11_DeleteClamps ==
    LET content == get_all_text(buffer)
        total == total_bytes(buffer)
    IN  \A offset \in 0..(total + 1), bytes \in 0..MaxDeleteLen :
            LET after == delete_bytes(buffer, offset, bytes)
                to == Min(offset + bytes, total)
            IN  IF bytes = 0 \/ offset >= total
                THEN after = buffer
                ELSE /\ get_all_text(after) = Drain(content, offset, to)
                     /\ total_bytes(after) = total - (to - offset)

\* C11 witness: an edited document of several pieces in which a delete that
\* starts inside a piece runs past the end and is cut off there
C11_Witness ==
    /\ Coalesced /\ Deleted
    /\ Len(buffer.piece_tree.pieces) >= 2
    /\ \E offset \in 1..(total_bytes(buffer) - 1) :
          LET piece_info == PieceTree_find_by_offset(buffer.piece_tree, offset)
              after == delete_bytes(buffer, offset, MaxDeleteLen)
          IN  /\ offset + MaxDeleteLen > total_bytes(buffer)
              /\ piece_info.offset_in_piece >= 1
              /\ get_all_text(after) = Slice(expected_text, 0, offset)
              /\ after # buffer

RefLineStart(content, n) ==
    IF n = 0 THEN 0
    ELSE CHOOSE k \in 1..Len(content) :
             content[k] = LF /\ NewlinesOf(SubSeq(content, 1, k)) = n

\* the answers of get_line(from) .. get_line(to - 1)
RECURSIVE LinesFrom(_, _, _)
LinesFrom(self, from, to) ==
    IF from >= to THEN <<>>
    ELSE <<get_line(self, from)>> \o LinesFrom(self, from + 1, to)

\* the bytes of the first k answers, one after the other
RECURSIVE JoinLines(_, _)
JoinLines(lines, k) ==
    IF k = 0 THEN <<>> ELSE JoinLines(lines, k - 1) \o lines[k].bytes

\* C13: get_line(i) is None exactly when i >= line_count(); a line before the
\* last is returned with its terminating '\n', the last line runs up to
\* total_bytes(); the lines one after the other are get_all_text().
C13_GetLine ==
    LET content == get_all_text(buffer)
        n == line_count(buffer)
        lines == LinesFrom(buffer, 0, n + 2)
    IN  /\ \A i \in 0..(n + 1) : lines[i + 1].some <=> i < n
        /\ \A i \in 0..(n - 2) :
              lines[i + 1].bytes =
                  Slice(content, RefLineStart(content, i),
                        RefLineStart(content, i + 1))
        /\ lines[n].bytes =
              Slice(content, RefLineStart(content, n - 1), Len(content))
        /\ JoinLines(lines, n) = content

\* C13 witness: an edited document of three lines whose first line ends in
\* one piece and whose last line is not empty
C13_Witness ==
    /\ Len(buffer.buffers) >= 2
    /\ line_count(buffer) = 3
    /\ Len(buffer.piece_tree.pieces) >= 3
    /\ Len(get_line(buffer, 0).bytes) >= 2
    /\ get_line(buffer, 2).bytes # <<>>
    /\ ~get_line(buffer, 3).some

\* C14: append coalescing creates no new piece: when insert_bytes finds the
\* piece before offset in an Added arena, ending at offset and at the end of
\* its arena, the bytes are appended to that arena and the piece count of the
\* piece tree is unchanged.
C14_CoalescingKeepsPieceCount ==
    \A text \in Texts \ {<<>>} :
        \A offset \in 1..total_bytes(buffer) :
            LET append_info == try_append_to_existing_buffer(buffer, offset, text)
                after == insert_bytes(buffer, offset, text)
            IN  append_info.some =>
                    /\ Len(after.buffers) = Len(buffer.buffers)
                    /\ Len(after.piece_tree.pieces) =
                           Len(buffer.piece_tree.pieces)

\* C15: snapshots stay valid under foreground editing: after any later
\* inserts and deletes by the owner, coalescing appends to an arena the
\* snapshot refers to included, the captured piece sequence reads as exactly
\* the bytes it read as when captured.
C15_SnapshotStable ==
    piece_snapshot.taken =>
        read_snapshot(buffer, piece_snapshot) = piece_snapshot.text

\* C15 witness: since the capture the owner has appended, by coalescing, to
\* an arena the snapshot refers to, and has deleted bytes the snapshot holds
C15_Witness ==
    /\ piece_snapshot.taken
    /\ LET old == piece_snapshot.piece_tree.pieces
           now == buffer.piece_tree.pieces
       IN  /\ \E i \in 1..Len(old), j \in 1..Len(now) :
                 /\ old[i].location.kind = "Added"
                 /\ now[j].location = old[i].location
                 /\ now[j].offset >= old[i].offset + old[i].bytes
           /\ \E i \in 1..Len(old) : \A j \in 1..Len(now) : now[j] # old[i]
    /\ get_all_text(buffer) # piece_snapshot.text
    /\ read_snapshot(buffer, piece_snapshot) = piece_snapshot.text

(***************************************************************************)
(* Properties of the viewport highlighter, checked under HlSpec.  A        *)
(* request is a viewport and a context size; the properties speak of what  *)
(* highlight_viewport does with each request in each reachable state.      *)
(***************************************************************************)
Requests ==
    {<<vs, ve, ctx>> \in (0..(Len(hl_buffer) + 1)) \X (0..(Len(hl_buffer) + 1))
                           \X ContextBytes : vs <= ve}

Answer(req) == highlight_viewport(highlighter, hl_buffer, req[1], req[2], req[3])

\* C16: the cache is never served stale: after edits that were each reported
\* through invalidate_range, a request takes the cache-hit path only if the
\* buffer bytes inside cache.range are those the cache was parsed from.
C16_CacheNeverStale ==
    \A req \in Requests :
        Answer(req).hit =>
            slice_bytes(hl_buffer, highlighter.cache.range.start,
                        highlighter.cache.range.end)
              = slice_bytes(cache_source.bytes, highlighter.cache.range.start,
                            highlighter.cache.range.end)

\* the buffer has not changed since the cache, if any, was parsed
StableBuffer == highlighter.cache.some => cache_source.bytes = hl_buffer

SortedByStart(spans) ==
    \A i \in 1..(Len(spans) - 1) : spans[i].start <= spans[i + 1].start
NonOverlapping(spans) ==
    \A i \in 1..(Len(spans) - 1) : spans[i].end <= spans[i + 1].start

\* C17 as claimed: over a stable buffer the spans returned on either path
\* are sorted by start, pairwise non-overlapping, and every range lies
\* within [vp_start, vp_end) intersected with [0, total_bytes()).
C17_SpansWithinViewport ==
    StableBuffer =>
        \A req \in Requests :
            LET spans == Answer(req).spans
            IN  /\ SortedByStart(spans) /\ NonOverlapping(spans)
                /\ \A i \in 1..Len(spans) :
                      /\ req[1] <= spans[i].start /\ spans[i].end <= req[2]
                      /\ spans[i].end <= Len(hl_buffer)

\* C17 as amended: over a stable buffer the spans returned on either path
\* are sorted by start, pairwise non-overlapping, and every range overlaps
\* [vp_start, vp_end) and lies within [0, total_bytes()).
C17_SpansOverlapViewport ==
    StableBuffer =>
        \A req \in Requests :
            LET spans == Answer(req).spans
            IN  /\ SortedByStart(spans) /\ NonOverlapping(spans)
                /\ \A i \in 1..Len(spans) :
                      /\ spans[i].start < spans[i].end
                      /\ spans[i].start < req[2] /\ spans[i].end > req[1]
                      /\ spans[i].end <= Len(hl_buffer)

\* C17 witness: over a stable buffer with a cache, one request is answered
\* from the cache and another by a parse, each with two spans or more
C17_Witness ==
    /\ highlighter.cache.some /\ StableBuffer
    /\ \E req \in Requests : Answer(req).hit /\ Len(Answer(req).spans) >= 2
    /\ \E req \in Requests : Answer(req).parsed /\ Len(Answer(req).spans) >= 2

\* the parse window of a request: [max(0, vs - ctx), min(total, ve + ctx))
WindowLen(req) ==
    LET from == IF req[1] >= req[3] THEN req[1] - req[3] ELSE 0
        to == Min(Len(hl_buffer), req[2] + req[3])
    IN  IF to >= from THEN to - from ELSE 0

\* C20: on a cache miss whose parse window is longer than MAX_PARSE_BYTES,
\* highlight_viewport returns the empty vector without parsing and leaves
\* the cache and last_buffer_len unchanged.
C20_OversizeReturnsEmpty ==
    \A req \in Requests :
        LET answer == Answer(req)
        IN  (WindowLen(req) > MAX_PARSE_BYTES /\ ~answer.hit) =>
                /\ answer.spans = <<>>
                /\ ~answer.parsed
                /\ answer.self = highlighter

\* C20 witness: a highlighter that holds a cache gets a request it cannot
\* answer from it and whose window is too long, over a buffer with
\* something to highlight
C20_Witness ==
    /\ highlighter.cache.some
    /\ highlighter.cache.spans # <<>>
    /\ \E req \in Requests :
          /\ ~Answer(req).hit
          /\ WindowLen(req) > MAX_PARSE_BYTES
          /\ Answer(req).spans = <<>>
          /\ Answer(req).self = highlighter

\* the edit ranges invalidate_range may be given
EditRanges ==
    {Range(from, to) : from \in 0..(Len(hl_buffer) + 1),
                       to \in 0..(Len(hl_buffer) + 1)}

\* the two half-open ranges have a byte in common
SharesByte(a, b) ==
    \E i \in 0..(Len(hl_buffer) + 1) :
        /\ a.start <= i /\ i < a.end
        /\ b.start <= i /\ i < b.end

\* the half-open interval test: each range starts before the other ends
Overlap(a, b) == a.start < b.end /\ b.start < a.end

\* no request is answered from the cache of `self`
AlwaysMiss(self) ==
    \A req \in Requests :
        ~highlight_viewport(self, hl_buffer, req[1], req[2], 0).hit

\* C21: invalidate_range(edit) drops the cache if and only if a cache exists
\* and edit overlaps cache.range (for two non-empty ranges: they have a byte
\* in common), and otherwise leaves the highlighter untouched;
\* invalidate_all() always leaves it with no cache; after either drop the
\* next highlight_viewport call takes the miss path.
C21_InvalidateDropsOnOverlap ==
    LET dropped == [highlighter EXCEPT !.cache = NoCache]
    IN  /\ \A edit \in EditRanges :
              LET after == invalidate_range(highlighter, edit)
                  range == highlighter.cache.range
              IN  /\ IF highlighter.cache.some /\ Overlap(edit, range)
                     THEN after = dropped
                     ELSE after = highlighter
                  /\ (/\ highlighter.cache.some
                      /\ edit.start < edit.end /\ range.start < range.end) =>
                         (~after.cache.some <=> SharesByte(edit, range))
        /\ invalidate_all(highlighter) = dropped
        /\ ~dropped.cache.some
        /\ AlwaysMiss(dropped)

\* C21 witness: the highlighter holds a cache of a non-empty range that
\* answers some request; an edit inside the range drops it, an edit that
\* ends where the range starts leaves it
C21_Witness ==
    /\ highlighter.cache.some
    /\ highlighter.cache.range.start >= 1
    /\ highlighter.cache.range.start < highlighter.cache.range.end
    /\ \E req \in Requests : Answer(req).hit
    /\ ~invalidate_range(highlighter,
            Range(highlighter.cache.range.start,
                  highlighter.cache.range.start + 1)).cache.some
    /\ invalidate_range(highlighter,
            Range(highlighter.cache.range.start - 1,
                  highlighter.cache.range.start)) = highlighter
    /\ ~invalidate_all(highlighter).cache.some

\* the positions in `spans` of the spans the filter keeps, and the k-th of them
KeptIndexes(spans, viewport_start, viewport_end) ==
    {i \in 1..Len(spans) :
        spans[i].start < viewport_end /\ spans[i].end > viewport_start}
KthOf(indexes, k) ==
    CHOOSE i \in indexes : Cardinality({j \in indexes : j <= i}) = k

\* C22: highlight_viewport takes the cache-hit path exactly when a cache
\* exists, cache.range.start <= vp_start, cache.range.end >= vp_end and
\* last_buffer_len is the buffer length; on a hit nothing is parsed, the
\* cache and last_buffer_len are unchanged, and the result is the cached
\* spans that overlap [vp_start, vp_end), in cached order.
C22_CacheHitPath ==
    \A req \in Requests :
        LET answer == Answer(req)
            cache == highlighter.cache
            kept == KeptIndexes(cache.spans, req[1], req[2])
        IN  /\ answer.hit <=>
                  /\ cache.some
                  /\ cache.range.start <= req[1] /\ cache.range.end >= req[2]
                  /\ highlighter.last_buffer_len = Len(hl_buffer)
            /\ answer.hit =>
                  /\ ~answer.parsed
                  /\ answer.self = highlighter
                  /\ Len(answer.spans) = Cardinality(kept)
                  /\ \A k \in 1..Len(answer.spans) :
                        answer.spans[k] =
                            HighlightSpan(cache.spans[KthOf(kept, k)])

\* C22 witness: one request is answered from the cache with some but not
\* all of the cached spans, another one is parsed
C22_Witness ==
    /\ highlighter.cache.some
    /\ \E req \in Requests :
          /\ Answer(req).hit
          /\ Answer(req).spans # <<>>
          /\ Len(Answer(req).spans) < Len(highlighter.cache.spans)
    /\ \E req \in Requests : Answer(req).parsed

\* C23: for an empty viewport (vp_start = vp_end) highlight_viewport returns
\* the empty vector, for every buffer, every context_bytes and every cache
\* state, on the hit and on the miss path.
C23_EmptyViewportReturnsEmpty ==
    \A req \in Requests : req[1] = req[2] => Answer(req).spans = <<>>

(***************************************************************************)
(* Properties of merge_adjacent_spans and of the line scanner, checked     *)
(* under FnSpec.                                                           *)
(***************************************************************************)
\* the (byte, category) pairs a span list covers
Cover(spans) ==
    {<<b, spans[i].category>> :
        i \in 1..Len(spans), b \in 0..MaxPos} \cap
    {pair \in (0..MaxPos) \X Categories :
        \E i \in 1..Len(spans) :
            /\ spans[i].category = pair[2]
            /\ spans[i].start <= pair[1] /\ pair[1] < spans[i].end}

\* `after` is `before` with runs of consecutive spans replaced by one span
\* each, in the same order
RunsInOrder(before, after) ==
    \E f \in [1..Len(before) -> 1..Len(after)] :
        /\ \A i \in 1..(Len(before) - 1) : f[i] <= f[i + 1] /\ f[i + 1] <= f[i] + 1
        /\ \A j \in 1..Len(after) : \E i \in 1..Len(before) : f[i] = j
        /\ \A i \in 1..Len(before) :
              /\ after[f[i]].category = before[i].category
              /\ after[f[i]].start <= before[i].start
              /\ before[i].end <= after[f[i]].end

\* C18: for an input sorted by start, after merge_adjacent_spans no two
\* consecutive spans have equal categories and touch; the (byte, category)
\* pairs covered and the relative order of the spans are unchanged.
C18_MergeAdjacent ==
    (fn_output.done /\ fn_input.fn = "merge") =>
        LET before == fn_input.spans
            after == fn_output.spans
        IN  /\ \A i \in 1..(Len(after) - 1) :
                  ~(/\ after[i].category = after[i + 1].category
                    /\ after[i].end = after[i + 1].start)
            /\ Cover(after) = Cover(before)
            /\ (before = <<>>) <=> (after = <<>>)
            /\ RunsInOrder(before, after)

\* C18 witness: of three spans the first two were merged and the third,
\* of another category, moved up
C18_Witness ==
    /\ fn_output.done /\ fn_input.fn = "merge"
    /\ Len(fn_input.spans) = 3 /\ Len(fn_output.spans) = 2
    /\ fn_input.spans[1].end = fn_input.spans[2].start
    /\ fn_output.spans[1].end = fn_input.spans[2].end
    /\ fn_output.spans[2] = fn_input.spans[3]
    /\ fn_input.spans[3].category # fn_input.spans[1].category

\* the line [from, to) of content ends right after the first "\n", "\r\n"
\* or lone "\r" found from `from` on, or at the end of the content
EndsAtFirstTerminator(content, from, to) ==
    /\ from < to /\ to <= Len(content)
    /\ \A i \in (from + 1)..(to - 1) :
          /\ content[i] # LF
          /\ content[i] = CR => (i = to - 1 /\ content[to] = LF)
    /\ content[to] \notin {CR, LF} => to = Len(content)
    /\ content[to] = CR => (to = Len(content) \/ content[to + 1] # LF)

RECURSIVE SumLineLengths(_, _)
SumLineLengths(lines, k) ==
    IF k = 0 THEN 0
    ELSE (lines[k].line_end - lines[k].line_start) + SumLineLengths(lines, k - 1)

\* C19: the line scanner of parse_region partitions the window into
\* consecutive lines, each ending right after the first "\n", "\r\n" or
\* lone "\r" (or at the window end), with lengths summing to the window
\* length; the spans of line k are placed from parse_start plus the actual
\* byte lengths of the lines before it, so in "public\r\npublic\r\npublic\r\n"
\* the three tokens start at 0, 8 and 16.
C19_LineScanner ==
    (fn_output.done /\ fn_input.fn = "scan") =>
        LET content == fn_input.content
            lines == fn_output.lines
            n == Len(lines)
        IN  /\ (n = 0) <=> (content = <<>>)
            /\ n > 0 => lines[1].line_start = 0 /\ lines[n].line_end = Len(content)
            /\ \A k \in 1..(n - 1) : lines[k].line_end = lines[k + 1].line_start
            /\ \A k \in 1..n :
                  EndsAtFirstTerminator(content, lines[k].line_start,
                                        lines[k].line_end)
            /\ SumLineLengths(lines, n) = Len(content)
            /\ \A k \in 1..n :
                  lines[k].offset =
                      fn_input.parse_start + SumLineLengths(lines, k - 1)
            /\ (content = PublicCrlf /\ fn_input.parse_start = 0) =>
                  [i \in 1..Len(fn_output.spans) |-> fn_output.spans[i].start]
                      = <<0, 8, 16>>

\* C19 witness: the three CRLF lines of the example were scanned and their
\* tokens placed at 0, 8 and 16
C19_Witness ==
    /\ fn_output.done /\ fn_input.fn = "scan"
    /\ fn_input.content = PublicCrlf /\ fn_input.parse_start = 0
    /\ Len(fn_output.lines) = 3
    /\ fn_output.lines[3].offset = 16
    /\ fn_output.spans =
           <<CachedSpan(0, 6, "Keyword"), CachedSpan(8, 14, "Keyword"),
             CachedSpan(16, 22, "Keyword")>>

\* byte j (from 1) of the content is the last byte of a line
EndsLine(content, j) ==
    \/ j = Len(content)
    \/ content[j] = LF
    \/ content[j] = CR /\ content[j + 1] # LF

\* the line that holds byte i (from 1): content[from..to], 0-based, end
\* exclusive
LineOf(content, i) ==
    LET to == CHOOSE j \in i..Len(content) :
                  /\ EndsLine(content, j)
                  /\ \A k \in i..(j - 1) : ~EndsLine(content, k)
        before == {j \in 1..(i - 1) : EndsLine(content, j)}
        from == IF before = {} THEN 0
                ELSE CHOOSE j \in before : \A k \in before : k <= j
    IN  Slice(content, from, to)

\* some span of the category covers the buffer offset
Covered(spans, offset, category) ==
    \E k \in 1..Len(spans) :
        /\ spans[k].category = category
        /\ spans[k].start <= offset /\ offset < spans[k].end

\* the category the grammar gives a byte of a line it parses
ByteCategory(syntax, byte) == scope_to_category(ScopeOf(syntax, byte))

\* C24: when the parsed window holds a line that is not valid UTF-8, or that
\* the parser fails on, parse_region skips only that line, advances the
\* output cursor by the line's actual byte length and goes on: every other
\* line still gets its spans, at its own byte offsets.
C24_SkipsOnlyBadLine ==
    (fn_output.done /\ fn_input.fn = "parse") =>
        \A i \in 1..Len(fn_input.content), category \in Categories :
            LET line == LineOf(fn_input.content, i)
                skipped == ~IsUtf8(line) \/ parse_line_fails(fn_input.syntax, line)
                given == ByteCategory(fn_input.syntax, fn_input.content[i])
            IN  Covered(fn_output.spans, fn_input.parse_start + i - 1, category)
                    <=> (~skipped /\ given.some /\ given.category = category)

\* the part of C24 about lines the parser fails on, over windows that are
\* valid UTF-8
C24_ParserErrorSkipsOnlyLine ==
    (fn_output.done /\ fn_input.fn = "parse" /\ IsUtf8(fn_input.content)) =>
        C24_SkipsOnlyBadLine

\* the rows of the mapping in their priority order: prefixes and category
Row(prefixes, category) == [prefixes |-> prefixes, category |-> category]
PriorityRows ==
    <<Row({"comment"}, "Comment"),
      Row({"string"}, "String"),
      Row({"markup.heading", "entity.name.section"}, "Keyword"),
      Row({"markup.bold"}, "Constant"),
      Row({"markup.italic"}, "Variable"),
      Row({"markup.raw", "markup.inline.raw"}, "String"),
      Row({"markup.underline.link", "markup.underline"}, "Function"),
      Row({"markup.quote", "markup.strikethrough"}, "Comment"),
      Row({"markup.list"}, "Operator"),
      Row({"keyword.operator"}, "Operator"),
      Row({"keyword"}, "Keyword"),
      Row({"punctuation"}, "Operator"),
      Row({"entity.name.function", "support.function", "meta.function-call",
           "variable.function"}, "Function"),
      Row({"entity.name.type", "entity.name.class", "entity.name.struct",
           "entity.name.enum", "entity.name.interface", "entity.name.trait",
           "support.type", "support.class", "storage.type"}, "Type"),
      Row({"storage.modifier"}, "Keyword"),
      Row({"constant.numeric", "constant.language.boolean"}, "Number"),
      Row({"constant"}, "Constant"),
      Row({"variable.parameter", "variable.other", "variable.language"},
          "Variable"),
      Row({"entity.name.tag", "support.other.property",
           "meta.object-literal.key", "variable.other.property",
           "variable.other.object.property"}, "Property"),
      Row({"entity.other.attribute", "meta.attribute",
           "entity.name.decorator"}, "Attribute"),
      Row({"variable"}, "Variable")>>

\* the scope begins with the prefix
HasPrefix(scope, prefix) ==
    \E rest \in {SubSeq(scope, Len(prefix) + 1, Len(scope))} :
        Len(scope) >= Len(prefix) /\ prefix \o rest = scope

RowMatches(row, scope) == \E prefix \in row.prefixes : HasPrefix(scope, prefix)

\* the category of the first row that matches, if any
FirstRowCategory(scope) ==
    LET matching == {k \in 1..Len(PriorityRows) : RowMatches(PriorityRows[k], scope)}
    IN  IF matching = {} THEN NoCategory
        ELSE SomeCategory(
                 PriorityRows[CHOOSE k \in matching :
                                  \A j \in matching : k <= j].category)

\* the lowercase spelling of each scope written with capitals
LowercaseOf ==
    ("Comment.Line" :> "comment.line") @@ ("STRING.QUOTED" :> "string.quoted")
        @@ ("Keyword.Operator.Rust" :> "keyword.operator.rust")
        @@ ("KEYWORD" :> "keyword")
        @@ ("Markup.Underline.Link" :> "markup.underline.link")
        @@ ("Variable.Other.Property" :> "variable.other.property")
        @@ ("Punctuation" :> "punctuation")
        @@ ("Constant.Numeric" :> "constant.numeric")
        @@ ("Storage.Modifier" :> "storage.modifier")
        @@ ("SOURCE" :> "source")

\* C26: scope_to_category lowercases its input and returns the category of
\* the first row, in the priority order, one of whose prefixes the scope
\* starts with, and None when no prefix matches; every scope starting with
\* keyword.operator maps to Operator and every other scope starting with
\* keyword maps to Keyword.
C26_FirstMatchingRow ==
    (fn_output.done /\ fn_input.fn = "scope") =>
        LET scope == IF fn_input.scope \in ScopeCapitals
                     THEN LowercaseOf[fn_input.scope]
                     ELSE fn_input.scope
        IN  /\ fn_output.category = FirstRowCategory(scope)
            /\ fn_input.scope \in DOMAIN category_of =>
                  category_of[fn_input.scope] = fn_output.category
            /\ HasPrefix(scope, "keyword.operator") =>
                  fn_output.category = SomeCategory("Operator")
            /\ (HasPrefix(scope, "keyword")
                    /\ ~HasPrefix(scope, "keyword.operator")) =>
                  fn_output.category = SomeCategory("Keyword")

\* C26 witness: a scope written with capitals that two rows match, first the
\* row of keyword.operator
C26_Witness ==
    /\ fn_output.done /\ fn_input.fn = "scope"
    /\ fn_input.scope = "Keyword.Operator.Rust"
    /\ fn_output.category = SomeCategory("Operator")

\* C38: every prefix listed in the mapping gives the category of its own
\* row: a scope that is one of the listed prefixes maps to that row's
\* category; every scope starting with variable.other.property or
\* variable.other.object.property maps to Property, every scope starting
\* with constant.numeric or constant.language.boolean to Number, and every
\* scope starting with markup.underline.link to Function.
C38_PrefixMapsToOwnRow ==
    (fn_output.done /\ fn_input.fn = "scope") =>
        LET scope == IF fn_input.scope \in ScopeCapitals
                     THEN LowercaseOf[fn_input.scope]
                     ELSE fn_input.scope
        IN  /\ \A k \in 1..Len(PriorityRows) :
                  scope \in PriorityRows[k].prefixes =>
                      fn_output.category = SomeCategory(PriorityRows[k].category)
            /\ (HasPrefix(scope, "variable.other.property")
                    \/ HasPrefix(scope, "variable.other.object.property")) =>
                  fn_output.category = SomeCategory("Property")
            /\ (HasPrefix(scope, "constant.numeric")
                    \/ HasPrefix(scope, "constant.language.boolean")) =>
                  fn_output.category = SomeCategory("Number")
            /\ HasPrefix(scope, "markup.underline.link") =>
                  fn_output.category = SomeCategory("Function")

\* the number of nodes on the longest path from the node down to a leaf
RECURSIVE Depth(_, _)
Depth(h, node) ==
    IF node.kind = "Internal"
    THEN LET below == {Depth(h, h[node.left]), Depth(h, h[node.mid]),
                       Depth(h, h[node.right])}
         IN  1 + CHOOSE d \in below : \A e \in below : e <= d
    ELSE 1

RECURSIVE Pow2(_)
Pow2(k) == IF k = 0 THEN 1 ELSE 2 * Pow2(k - 1)

\* log2(len / n) <= k, for k of either sign
Log2RatioAtMost(len, n, k) ==
    IF k >= 0 THEN len <= n * Pow2(k) ELSE len * Pow2(0 - k) <= n

\* the integers that are ceil(log2(len / n)): one when len > 0, none when
\* len = 0, where the logarithm has no value
CeilLog2Ratio(len, n) ==
    {k \in (0 - (len + n))..(len + n) :
        Log2RatioAtMost(len, n, k) /\ ~Log2RatioAtMost(len, n, k - 1)}

\* a single Leaf for len <= n, otherwise an Internal node whose left holds
\* data[..len/2], whose right holds data[len/2..] and whose mid is an empty Gap
FromSliceShape ==
    LET data == fn_input.data
        node == fn_output.tree.node
        h == fn_output.tree.h
    IN  /\ fn_output.tree.ok
        /\ IF Len(data) <= fn_input.n THEN node = Leaf(data)
           ELSE /\ node.kind = "Internal"
                /\ node.size = Len(data)
                /\ h[node.mid] = Gap(0)
                /\ collect_bytes_into(h, h[node.left], 0, <<>>) =
                       SubSeq(data, 1, Len(data) \div 2)
                /\ collect_bytes_into(h, h[node.right], 0, <<>>) =
                       SubSeq(data, Len(data) \div 2 + 1, Len(data))

\* C39: for every len >= 0 and leaf bound N >= 1, from_slice(data, N) is a
\* single Leaf when len <= N and otherwise an Internal node splitting at
\* len/2 with an empty Gap as mid, and the depth of the tree is
\* ceil(log2(len/N)) + 1.
C39_FromSliceDepthLog ==
    (fn_output.done /\ fn_input.fn = "from_slice") =>
        /\ FromSliceShape
        /\ Depth(fn_output.tree.h, fn_output.tree.node) - 1
               \in CeilLog2Ratio(Len(fn_input.data), fn_input.n)

\* C39 as amended: ... and the depth of the tree is 1 when len <= N and
\* ceil(log2(len/N)) + 1 when len > N.
C39_FromSliceDepth ==
    (fn_output.done /\ fn_input.fn = "from_slice") =>
        LET len == Len(fn_input.data)
            depth == Depth(fn_output.tree.h, fn_output.tree.node)
        IN  /\ FromSliceShape
            /\ len <= fn_input.n => depth = 1
            /\ len > fn_input.n => depth - 1 \in CeilLog2Ratio(len, fn_input.n)

\* C39 witness: five bytes with leaf bound 1 give an Internal node over a
\* tree of depth 4 = ceil(log2 5) + 1
C39_Witness ==
    /\ fn_output.done /\ fn_input.fn = "from_slice"
    /\ Len(fn_input.data) = 5 /\ fn_input.n = 1
    /\ fn_output.tree.node.kind = "Internal"
    /\ Depth(fn_output.tree.h, fn_output.tree.node) = 4
    /\ CeilLog2Ratio(5, 1) = {3}


(***************************************************************************)
(* Properties of the ChunkTree, checked under ChunkSpec.  The newest       *)
(* version is the result of the last call; snapshots[call.v] is what its   *)
(* receiver read as before the call.                                       *)
(***************************************************************************)
Newest == versions[Len(versions)]
NewestView == Snapshot(heap, Newest)
ReceiverView == snapshots[call.v]

\* the receiver of the last call holds a gap of at least one byte
ReceiverHasGap == \E g, k \in GapBytes : ReceiverView.bytes[g] # ReceiverView.bytes[k]

\* C5: a ChunkTree is persistent: whatever insert and remove calls are made
\* later, on it or on versions derived from it, its len() and its
\* collect_bytes(g) stay what they were when it was made.
C5_Persistent ==
    \A v \in 1..Len(versions) : Snapshot(heap, versions[v]) = snapshots[v]

\* C5 witness: a third version, made from a tree with content, that reads
\* differently from the first and shares a node of an older version
C5_Witness ==
    /\ Len(versions) >= 3
    /\ snapshots[1].len > 0
    /\ call.op \in {"insert", "remove"}
    /\ NewestView # ReceiverView
    /\ heap[Newest.root].kind = "Internal"
    /\ \E c \in {heap[Newest.root].left, heap[Newest.root].mid,
                 heap[Newest.root].right} : c <= versions[call.v].root
    /\ Snapshot(heap, versions[1]) = snapshots[1]

\* C6: for 0 <= i <= len(t), t.insert(i, d).collect_bytes(g) is
\* t.collect_bytes(g) with d spliced in at i, and its len() is len(t) + |d|,
\* also when t contains gaps.
C6_InsertSplices ==
    (call.op = "insert" /\ call.index <= ReceiverView.len) =>
        /\ ~panicked
        /\ NewestView.len = ReceiverView.len + Len(call.data)
        /\ \A g \in GapBytes :
              NewestView.bytes[g] =
                  Splice(ReceiverView.bytes[g], call.index, call.data)

\* C6 witness: data inserted strictly inside a tree that holds a gap
C6_Witness ==
    /\ call.op = "insert" /\ ~panicked
    /\ ReceiverHasGap
    /\ call.data # <<>>
    /\ 0 < call.index /\ call.index < ReceiverView.len
    /\ NewestView.len = ReceiverView.len + Len(call.data)

\* C7: for start <= end and start < len(t), t.remove(start..end) reads as t
\* with the bytes [start, min(end, len(t))) deleted, and its len() is
\* len(t) - (min(end, len(t)) - start): an end past len(t) is clamped.
C7_RemoveDeletes ==
    (call.op = "remove" /\ call.start < ReceiverView.len) =>
        LET to == Min(call.end, ReceiverView.len)
        IN  /\ ~panicked
            /\ NewestView.len = ReceiverView.len - (to - call.start)
            /\ \A g \in GapBytes :
                  NewestView.bytes[g] =
                      Drain(ReceiverView.bytes[g], call.start, to)

\* C7 witness: a range that starts inside a tree holding a gap and ends past
\* its length
C7_Witness ==
    /\ call.op = "remove" /\ ~panicked
    /\ ReceiverHasGap
    /\ 0 < call.start /\ call.start < ReceiverView.len
    /\ call.end > ReceiverView.len
    /\ NewestView.len = call.start

\* C8: for a range whose start is >= len(t), t.remove(range) reads as t:
\* same len(), same collect_bytes(g) for every g, and no panic.
C8_RemovePastEnd ==
    (call.op = "remove" /\ call.start >= ReceiverView.len) =>
        /\ ~panicked
        /\ NewestView = ReceiverView

\* C8 witness: a non-empty range starting at or past the end of a tree with
\* content
C8_Witness ==
    /\ call.op = "remove" /\ ~panicked
    /\ ReceiverView.len > 0
    /\ call.start >= ReceiverView.len
    /\ call.end > call.start
    /\ NewestView = ReceiverView

\* C9: for i > len(t), t.insert(i, d) has len() exactly i + |d| and reads as
\* t, then i - len(t) copies of g, then d.
C9_SparseInsert ==
    (call.op = "insert" /\ call.index > ReceiverView.len) =>
        /\ ~panicked
        /\ NewestView.len = call.index + Len(call.data)
        /\ \A g \in GapBytes :
              NewestView.bytes[g] =
                  ReceiverView.bytes[g]
                      \o Fill(g, call.index - ReceiverView.len) \o call.data

\* C9 witness: data inserted past the end of a tree with content
C9_Witness ==
    /\ call.op = "insert" /\ ~panicked
    /\ ReceiverView.len > 0
    /\ call.index > ReceiverView.len
    /\ call.data # <<>>
    /\ NewestView.len = call.index + Len(call.data)

\* C10 as claimed: inserting empty data at any index insert accepts gives a
\* tree that reads as t.
C10_EmptyInsertAnyIndex ==
    (call.op = "insert" /\ call.data = <<>>) =>
        /\ ~panicked
        /\ NewestView = ReceiverView

\* C10 as amended: inserting empty data at an index 0 <= i <= len(t) gives a
\* tree that reads as t: same len(), same collect_bytes(g) for every g.
C10_EmptyInsertWithin ==
    (call.op = "insert" /\ call.data = <<>> /\ call.index <= ReceiverView.len) =>
        /\ ~panicked
        /\ NewestView = ReceiverView

\* C10 witness: empty data inserted strictly inside a tree with content
C10_Witness ==
    /\ call.op = "insert" /\ ~panicked
    /\ call.data = <<>>
    /\ 0 < call.index /\ call.index < ReceiverView.len
    /\ NewestView = ReceiverView

\* C27: constructing a chunk tree with leaf bound 0, by ChunkTree::new(0) or
\* by from_slice(data, 0) for any data, empty data included, aborts at
\* construction, and no tree with n = 0 is ever reachable.
C27_ZeroLeafBoundRejected ==
    /\ ~ChunkTree_new(heap, 0).ok
    /\ \A data \in ChunkInitData \cup ChunkData :
          ~ChunkTree_from_slice(heap, data, 0).ok
    /\ \A v \in 1..Len(versions) : versions[v].n > 0
    /\ (call.op = "from_slice" /\ panicked) => versions = <<>>

\* C27 witness: ChunkTree::new(0) has panicked and left no tree
C27_Witness ==
    /\ call.op = "from_slice" /\ panicked
    /\ call.data = <<>>
    /\ versions = <<>>
    /\ ~ChunkTree_new(<<>>, 0).ok

\* the children of an Internal node
Children(node) == <<node.left, node.mid, node.right>>

\* C28: in every reachable ChunkTree every Internal node's cached size is the
\* sum of the len() of its three children, and no assertion inside remove
\* fails for a range with start <= end.
C28_CachedSizeIsSum ==
    /\ \A id \in 1..Len(heap) :
          heap[id].kind = "Internal" =>
              heap[id].size =
                  ChunkTreeNode_len(heap[heap[id].left])
                      + ChunkTreeNode_len(heap[heap[id].mid])
                      + ChunkTreeNode_len(heap[heap[id].right])
    /\ (call.op = "remove" /\ call.start <= call.end) => ~panicked

\* C28 witness: a remove over a tree two levels deep took bytes away, and the
\* new root has an Internal child that the remove rebuilt
C28_Witness ==
    /\ call.op = "remove" /\ ~panicked
    /\ call.start < call.end
    /\ NewestView.len < ReceiverView.len
    /\ heap[Newest.root].kind = "Internal"
    /\ heap[versions[call.v].root].kind = "Internal"
    /\ \E k \in 1..3 :
          /\ heap[Children(heap[Newest.root])[k]].kind = "Internal"
          /\ Children(heap[Newest.root])[k] > versions[call.v].root

\* C29: with leaf bound N >= 1, every Leaf node of every reachable ChunkTree
\* holds at most N bytes.
C29_LeafWithinBound ==
    \A v \in 1..Len(versions) :
        /\ versions[v].n >= 1
        /\ \A id \in 1..versions[v].root :
              heap[id].kind = "Leaf" => Len(heap[id].data) <= versions[v].n

\* C29 witness: data longer than the leaf bound was inserted into a leaf and
\* the tree holds a full leaf
C29_Witness ==
    /\ call.op = "insert" /\ ~panicked
    /\ Len(call.data) > Newest.n
    /\ heap[versions[call.v].root].kind = "Leaf"
    /\ call.index <= ReceiverView.len
    /\ \E id \in 1..Newest.root :
          heap[id].kind = "Leaf" /\ Len(heap[id].data) = Newest.n

\* the child an insert at index goes into: the first of left, mid, right
\* whose end the index does not pass
ChosenChild(node, index) ==
    LET left_size == ChunkTreeNode_len(heap[node.left])
        mid_len == ChunkTreeNode_len(heap[node.mid])
    IN  IF index <= left_size THEN 1
        ELSE IF index <= left_size + mid_len THEN 2
        ELSE 3

\* the bytes before child k of the node
ChildOffset(node, k) ==
    LET left_size == ChunkTreeNode_len(heap[node.left])
        mid_len == ChunkTreeNode_len(heap[node.mid])
    IN  CASE k = 1 -> 0
          [] k = 2 -> left_size
          [] k = 3 -> left_size + mid_len

\* the node at new is what insert at index made of the node at old: down
\* the Internal nodes one child is replaced by a node made after the
\* receiver, the other two are the same Arcs, and the replaced child is what
\* the insert made of the old one
RECURSIVE InsertedBelow(_, _, _)
InsertedBelow(old, new, index) ==
    /\ heap[new].kind = "Internal"
    /\ new > versions[call.v].root
    /\ heap[old].kind = "Internal" =>
          LET k == ChosenChild(heap[old], index)
          IN  /\ index <= ChunkTreeNode_len(heap[old])
              /\ \A j \in (1..3) \ {k} :
                    Children(heap[new])[j] = Children(heap[old])[j]
              /\ Children(heap[new])[k] # Children(heap[old])[k]
              /\ InsertedBelow(Children(heap[old])[k], Children(heap[new])[k],
                               index - ChildOffset(heap[old], k))

\* C30: insert on an Internal node with index <= len recurses into exactly
\* one child, chosen left first, then mid, then right, an index on a child
\* boundary going into the earlier child; the new Internal node replaces
\* only that child and shares the other two by reference, and the "sparse
\* insert should have been handled above" panic is never reached.
C30_InsertDescendsOneChild ==
    (call.op = "insert" /\ call.index <= ReceiverView.len) =>
        /\ ~panicked
        /\ InsertedBelow(versions[call.v].root, Newest.root, call.index)

\* C30 witness: an insert at the boundary between a non-empty left child,
\* itself an Internal node, and a non-empty rest went into the left child
C30_Witness ==
    /\ call.op = "insert" /\ ~panicked
    /\ heap[versions[call.v].root].kind = "Internal"
    /\ LET old == heap[versions[call.v].root]
           new == heap[Newest.root]
       IN  /\ heap[old.left].kind = "Internal"
           /\ call.index = ChunkTreeNode_len(heap[old.left])
           /\ 0 < call.index /\ call.index < ReceiverView.len
           /\ new.left # old.left
           /\ new.mid = old.mid /\ new.right = old.right

\* the bytes [from, to) of the node that child k of the node holds
ChildSpan(node, k) ==
    LET from == ChildOffset(node, k)
    IN  Range(from, from + ChunkTreeNode_len(heap[Children(node)[k]]))

\* two ranges have a byte in common
Intersects(a, b) ==
    /\ a.start < a.end /\ b.start < b.end
    /\ a.start < b.end /\ b.start < a.end

\* the node at new is what remove(range) made of the Internal node at old:
\* a child without a byte in the range is the same Arc as before, and a
\* rebuilt child is what remove made of the old one
RECURSIVE RemovedBelow(_, _, _)
RemovedBelow(old, new, range) ==
    (heap[old].kind = "Internal" /\ heap[new].kind = "Internal") =>
        \A k \in 1..3 :
            LET span == ChildSpan(heap[old], k)
                old_child == Children(heap[old])[k]
                new_child == Children(heap[new])[k]
            IN  IF Intersects(span, range)
                THEN RemovedBelow(old_child, new_child,
                         range_cap(range_shift_left(range, span.start),
                                   ChunkTreeNode_len(heap[old_child])))
                ELSE new_child = old_child

\* C31: remove on an Internal node recurses only into the children whose
\* bytes intersect the deletion range; every child lying entirely before or
\* after the range is, in the result, the very same shared node.
C31_RemoveSharesOutsideChildren ==
    (call.op = "remove" /\ ~panicked /\ call.start < ReceiverView.len) =>
        RemovedBelow(versions[call.v].root, Newest.root,
                     Range(call.start, Min(call.end, ReceiverView.len)))

(***************************************************************************)
(* Properties of the pieces and arenas of the TextBuffer.                  *)
(***************************************************************************)
\* C33: after any sequence of inserts and deletes total_bytes is the sum of
\* the pieces' bytes, total_line_feeds the sum of their line_feed_count,
\* line_count is total_line_feeds + 1, and no piece has bytes = 0.
C33_PieceSums ==
    LET pt == buffer.piece_tree
    IN  /\ total_bytes(buffer) = SumBytes(pt.pieces)
        /\ pt.total_line_feeds = SumLF(pt.pieces)
        /\ line_count(buffer) = SumLF(pt.pieces) + 1
        /\ \A i \in 1..Len(pt.pieces) : pt.pieces[i].bytes > 0

\* C33 witness: inserts split the original piece and a delete took bytes
\* away; three pieces or more remain and hold a line feed
C33_Witness ==
    /\ Len(buffer.piece_tree.pieces) >= 3
    /\ Len(buffer.buffers) >= 2
    /\ SumArena(buffer.buffers) > total_bytes(buffer)
    /\ buffer.piece_tree.total_line_feeds >= 1
    /\ total_bytes(buffer) = Len(expected_text)

\* C34: every piece names an existing arena (its id is an index into buffers
\* and is that arena's id, and next_buffer_id is the number of arenas), its
\* window [offset, offset + bytes) lies within the arena's length, and its
\* line_feed_count is the number of '\n' in the window.
C34_PiecesWithinArenas ==
    /\ buffer.next_buffer_id = Len(buffer.buffers)
    /\ \A b \in 1..Len(buffer.buffers) : buffer.buffers[b].id = b - 1
    /\ \A i \in 1..Len(buffer.piece_tree.pieces) :
          LET piece == buffer.piece_tree.pieces[i]
          IN  /\ piece.location.id + 1 \in 1..Len(buffer.buffers)
              /\ piece.location.kind = "Stored" <=> piece.location.id = 0
              /\ piece.offset + piece.bytes
                     <= Len(buffer.buffers[piece.location.id + 1].data)
              /\ piece.line_feed_count =
                     WindowLF(buffer.buffers, piece.location, piece.offset,
                              piece.bytes)

\* C34 witness: an arena grown by a coalescing append carries two pieces, one
\* of them a trimmed or split part of what was inserted, with a line feed
C34_Witness ==
    \E i, j \in 1..Len(buffer.piece_tree.pieces) :
        LET p == buffer.piece_tree.pieces[i]
            q == buffer.piece_tree.pieces[j]
        IN  /\ i # j
            /\ p.location = q.location /\ p.location.kind = "Added"
            /\ p.offset + p.bytes <= q.offset
            /\ q.line_feed_count >= 1
            /\ q.offset + q.bytes = Len(buffer.buffers[q.location.id + 1].data)

\* the document offset at which piece i begins
PieceStart(pieces, i) == SumBytes(SubSeq(pieces, 1, i - 1))

\* the pieces that hold the byte at the document offset
PiecesHolding(pieces, byte) ==
    {i \in 1..Len(pieces) :
        /\ PieceStart(pieces, i) <= byte
        /\ byte < PieceStart(pieces, i) + pieces[i].bytes}

\* the piece before offset is in an edit arena and the insert point is its
\* end
EndsEditPiece(self, offset) ==
    /\ offset > 0
    /\ \E i \in PiecesHolding(self.piece_tree.pieces, offset - 1) :
          LET piece == self.piece_tree.pieces[i]
          IN  /\ piece.location.kind = "Added"
              /\ offset = PieceStart(self.piece_tree.pieces, i) + piece.bytes

\* ... and that piece ends at the end of its arena
EndsArena(self, offset) ==
    /\ EndsEditPiece(self, offset)
    /\ \A i \in PiecesHolding(self.piece_tree.pieces, offset - 1) :
          LET piece == self.piece_tree.pieces[i]
          IN  piece.offset + piece.bytes
                  = Len(self.buffers[piece.location.id + 1].data)

\* the arena of the piece that holds the byte before offset (1-based index)
ArenaBefore(self, offset) ==
    LET i == CHOOSE k \in PiecesHolding(self.piece_tree.pieces, offset - 1) : TRUE
    IN  self.piece_tree.pieces[i].location.id + 1

\* C35: a non-empty insert_bytes(offset, bytes) appends to an existing arena
\* exactly when offset > 0 and the piece holding byte offset - 1 is in an
\* Added arena, has offset - 1 as its last byte and ends at its arena's
\* length; then the arenas stay as many and the bytes occupy [old length,
\* old length + |bytes|) of that arena.  Otherwise exactly one new arena with
\* a fresh id is made, holding exactly the bytes, and no arena changes.  An
\* insert of no bytes changes no arena and no piece.
C35_AppendsOnlyAtArenaEnd ==
    \A text \in Texts, offset \in 0..(total_bytes(buffer) + 1) :
        LET after == insert_bytes(buffer, offset, text)
            n == Len(buffer.buffers)
        IN  IF text = <<>>
            THEN /\ after.buffers = buffer.buffers
                 /\ after.piece_tree = buffer.piece_tree
            ELSE IF EndsArena(buffer, offset)
            THEN LET a == ArenaBefore(buffer, offset)
                 IN  /\ Len(after.buffers) = n
                     /\ after.buffers[a].data = buffer.buffers[a].data \o text
                     /\ after.buffers[a].id = buffer.buffers[a].id
                     /\ \A b \in (1..n) \ {a} :
                           after.buffers[b] = buffer.buffers[b]
            ELSE /\ Len(after.buffers) = n + 1
                 /\ SubSeq(after.buffers, 1, n) = buffer.buffers
                 /\ after.buffers[n + 1].data = text
                 /\ \A b \in 1..n :
                       buffer.buffers[b].id # after.buffers[n + 1].id

\* C35 witness: one insert point ends an edit piece at its arena's end and
\* the insert grows that arena; another ends an edit piece that was trimmed
\* short of its arena's end and the insert opens a new arena
C35_Witness ==
    /\ \E offset \in 1..total_bytes(buffer) :
          /\ EndsArena(buffer, offset)
          /\ Len(insert_bytes(buffer, offset, <<97>>).buffers)
                 = Len(buffer.buffers)
    /\ \E offset \in 1..total_bytes(buffer) :
          /\ EndsEditPiece(buffer, offset) /\ ~EndsArena(buffer, offset)
          /\ Len(insert_bytes(buffer, offset, <<97>>).buffers)
                 = Len(buffer.buffers) + 1

RECURSIVE PieceBytes(_, _)
PieceBytes(pieces, gap_value) ==
    IF pieces = <<>> THEN <<>>
    ELSE (IF Head(pieces).kind = "Data" THEN Head(pieces).data
          ELSE Fill(gap_value, Head(pieces).size))
             \o PieceBytes(Tail(pieces), gap_value)

\* the pieces of a for loop over the newest tree's iter()
NewestPieces ==
    IterPieces(heap, ChunkTreeNode_iter(Newest.root), <<>>, Newest.root + 1)

\* C32: for any reachable chunk tree, iter() terminates and yields pieces in
\* left, mid, right depth-first order, no Data piece empty and no Gap of
\* size 0, and the pieces joined (a Gap as size copies of g) are
\* collect_bytes(g).
C32_IterMatchesCollect ==
    versions # <<>> =>
        LET run == NewestPieces
        IN  /\ ~run.running
            /\ \A k \in 1..Len(run.pieces) :
                  IF run.pieces[k].kind = "Data"
                  THEN run.pieces[k].data # <<>>
                  ELSE run.pieces[k].size > 0
            /\ \A g \in GapBytes :
                  PieceBytes(run.pieces, g) = collect_bytes(heap, Newest, g)

\* C32 witness: the tree is two levels deep, holds empty nodes, and its
\* iterator yields data, then a gap, then data
C32_Witness ==
    /\ versions # <<>>
    /\ heap[Newest.root].kind = "Internal"
    /\ \E k \in 1..3 : heap[Children(heap[Newest.root])[k]].kind = "Internal"
    /\ \E id \in 1..Newest.root : ChunkTreeNode_len(heap[id]) = 0
    /\ LET pieces == NewestPieces.pieces
       IN  \E i, j, k \in 1..Len(pieces) :
              /\ i < j /\ j < k
              /\ pieces[i].kind = "Data" /\ pieces[j].kind = "Gap"
              /\ pieces[k].kind = "Data"

\* the window of a request: [max(0, vs - ctx), min(total, ve + ctx))
WindowOf(req) ==
    Range(IF req[1] >= req[3] THEN req[1] - req[3] ELSE 0,
          Min(Len(hl_buffer), req[2] + req[3]))

\* the same request made again right after its answer, the buffer unchanged
Repeated(req) ==
    highlight_viewport(Answer(req).self, hl_buffer, req[1], req[2], req[3])

\* a miss that passed the size guard left the window, the spans parsed from
\* it and the buffer length in the highlighter
CacheReplaced(req) ==
    LET after == Answer(req).self
    IN  /\ after.cache.some
        /\ after.cache.range = WindowOf(req)
        /\ after.cache.spans =
               parse_region(highlighter.syntax, hl_buffer,
                            WindowOf(req).start, WindowOf(req).end)
        /\ after.last_buffer_len = Len(hl_buffer)

\* C36: on a cache miss that passes the size guard highlight_viewport
\* replaces the cache wholesale (range the window, spans those parsed from
\* it, last_buffer_len the buffer length), and the same call made again at
\* once on the unchanged buffer is a cache hit that returns the same result.
C36_MissFillsCacheThenHits ==
    \A req \in Requests :
        Answer(req).parsed =>
            /\ CacheReplaced(req)
            /\ Repeated(req).hit
            /\ Repeated(req).spans = Answer(req).spans

\* C36 as amended: ... and the same call made again at once on the unchanged
\* buffer returns the same result and leaves the cache as the first call
\* made it; it is a cache hit exactly when vp_end <= the buffer length (a
\* viewport reaching past the end of the buffer is parsed again).
C36_MissFillsCacheRepeatSame ==
    \A req \in Requests :
        LET first == Answer(req)
        IN  first.parsed =>
                LET second == Repeated(req)
                IN  /\ CacheReplaced(req)
                    /\ second.spans = first.spans
                    /\ second.self = first.self
                    /\ second.hit <=> req[2] <= Len(hl_buffer)

\* C36 witness: a highlighter holding a cache for another window parses a
\* request with context inside the buffer, finds spans, and answers the
\* repeated request from the new cache; a request reaching past the end of
\* the buffer is parsed on both calls
C36_Witness ==
    /\ highlighter.cache.some
    /\ \E req \in Requests :
          /\ Answer(req).parsed
          /\ req[3] > 0 /\ req[1] < req[2] /\ req[2] <= Len(hl_buffer)
          /\ WindowOf(req) # highlighter.cache.range
          /\ Answer(req).spans # <<>>
          /\ Repeated(req).hit
          /\ Repeated(req).spans = Answer(req).spans
    /\ \E req \in Requests :
          /\ Answer(req).parsed /\ req[2] > Len(hl_buffer)
          /\ Repeated(req).parsed

\* the offsets of the "\r" and "\n" bytes of the text the cache was parsed from
TerminatorOffsets ==
    {p \in 0..(Len(cache_source.bytes) - 1) : cache_source.bytes[p + 1] \in {CR, LF}}

\* C37: whenever a cache exists its spans are sorted by start, pairwise
\* non-overlapping, non-empty and within cache.range, and none covers a
\* line-terminator byte of the text they were parsed from: an operation
\* whose offset falls inside the terminator is clamped to the length of the
\* line's content.
C37_CachedSpansWellFormed ==
    highlighter.cache.some =>
        LET spans == highlighter.cache.spans
            range == highlighter.cache.range
        IN  /\ SortedByStart(spans)
            /\ NonOverlapping(spans)
            /\ \A i \in 1..Len(spans) :
                  /\ spans[i].start < spans[i].end
                  /\ range.start <= spans[i].start
                  /\ spans[i].end <= range.end
                  /\ \A p \in TerminatorOffsets :
                        ~(spans[i].start <= p /\ p < spans[i].end)

\* C37 witness: a cache parsed from "a\nb" by the grammar whose string
\* scope runs over the "\n" (its closing operation lies inside the
\* terminator), holding a span on each side of the terminator
C37_Witness ==
    /\ highlighter.cache.some
    /\ highlighter.syntax = "mixed"
    /\ cache_source.bytes = <<97, LF, 98>>
    /\ Len(highlighter.cache.spans) = 2
    /\ highlighter.cache.spans[1].end = 1
    /\ highlighter.cache.spans[2].start = 2
    /\ \E op \in {parse_line("mixed", <<97, LF>>)[k] : k \in 1..3} :
          op.offset > 1

====
